---- MODULE Spec2Model ----
(***************************************************************************)
(* State-machine model of TransactionCore (src/python/transactioncore.py): *)
(* the transaction builder, execute_transaction, send_bundle, the          *)
(* validator and the front-run / back-run / sandwich strategies.           *)
(*                                                                         *)
(* Python values are modelled as follows.  A dict is a TLA+ record whose   *)
(* DOMAIN is the set of keys present.  Optional[T] is a sequence: << >>    *)
(* for None and <<x>> for a value x.  Every await of a collaborator is a   *)
(* step whose outcome is drawn from a small set.                           *)
(***************************************************************************)
EXTENDS Integers, Sequences, FiniteSets, TLC

----------------------------------------------------------------------------
(* Configuration values (configuration.py is not part of src/): the bounds *)
(* of the model.                                                           *)

MEMPOOL_MAX_RETRIES == 3

MEMPOOL_RETRY_DELAY == 2

\* len(configuration.MEV_BUILDERS)
NumBuilders == 2

\* the configured relays, in list order
MEV_BUILDERS == 1..NumBuilders

\* the chain head may advance this many times during one call
MaxHeadAdvance == 1

----------------------------------------------------------------------------
(* Optional values *)

None == << >>

Some(x) == <<x>>

IsNone(o) == Len(o) = 0

\* dict.update(other): keys of other win
Update(d, other) ==
    [k \in (DOMAIN d) \cup (DOMAIN other) |->
        IF k \in DOMAIN other THEN other[k] ELSE d[k]]

----------------------------------------------------------------------------
(* Signing *)

\* A mutation of SignRaises: signing never fails.
SignRaises_Never(transaction) == FALSE

\* eth_account refuses a transaction dict that lacks a required field
SignRaises(transaction) == "nonce" \notin DOMAIN transaction

\* sign_transaction: the raw signed bytes of the transaction
sign_transaction(transaction) ==
    [signer |-> "account.key", payload |-> transaction]

\* bytes.hex() / hex(int)
Hex(x) == <<"0x", x>>

----------------------------------------------------------------------------
VARIABLES
    op,             \* the entry point being run
    pc,             \* its control point
    result,         \* Optional: the value the entry point returned
    raised,         \* TRUE when an exception left the entry point
    \* ---- send_bundle
    transactions,   \* the list handed to send_bundle
    signed_txs,     \* signed members, in order
    signCalls,      \* number of sign_transaction calls made
    bundle_payload, \* Optional: the params object of the relay payload
    block_number,   \* the chain head
    headAdvances,   \* how often the head advanced during the call
    builder,        \* index into MEV_BUILDERS of the relay being tried
    attempt,        \* attempt number at that relay
    successes,      \* list of relays that accepted
    posts,          \* relay -> number of posts made to it
    lastResp,       \* relay -> the answer to the last post to it
    posted,         \* relay -> the payloads the posts to it carried
    mev_builders,   \* the configured relays, in the order they are tried
    lastSleep,      \* delay slept just before the current attempt (0: none)
    refreshCount,   \* number of noncecore.refresh_nonce() calls
    sb_result,      \* Optional: what send_bundle returned
    \* ---- execute_transaction
    tx,             \* the transaction handed to execute_transaction
    ex_attempt,     \* attempt number of the retry loop
    ex_signs,       \* sign_transaction calls made
    ex_sends,       \* send_raw_transaction calls made
    ex_accepted,    \* broadcasts the chain client accepted
    ex_lastFailure, \* how the last attempt failed ("none": no failure yet)
    ex_lastSleep,   \* delay slept after the last failed attempt (0: none)
    \* ---- the strategies
    strategy,       \* the sub-strategy name given to execute_sandwich_attack
    target_tx,      \* the target transaction: [isDict, d]
    engine,         \* the engine's configuration and router handles
    chain,          \* what the chain client and the safety gate answer
    valid,          \* Optional: the first element _validate_transaction returned
    decoded_tx,     \* Optional: the decoded call it returned
    token_symbol,   \* Optional: the symbol it returned
    symbolCalls,    \* number of apiconfig.get_token_symbol calls
    symbolAnswer,   \* what the last of them came back with ("unasked": none)
    flashloan_tx,   \* Optional: the prepared flashloan transaction
    flashloan_amount, \* Optional: what calculate_flashloan_amount returned
    signals,        \* the market signals one decision gathered
    score,          \* Optional: the score computed from them
    front_run_tx,   \* Optional: the prepared front-run transaction
    back_run_tx,    \* Optional: the prepared back-run transaction
    nextNonce,      \* the nonce the nonce service issues next
    nonceCalls,     \* number of noncecore.get_nonce calls
    buildCalls,     \* number of build_transaction calls
    bundle,         \* the list handed to _validate_and_send_bundle
    simulations,    \* per member: "running", "true" or "false"
    \* ---- the engine across calls
    signedLog,      \* every payload sign_transaction has signed
    built,          \* the transactions build_transaction has returned to the caller
    call_args,      \* the arguments of a call made on its own
    tasks           \* the strategy invocations running concurrently on the engine

sbVars == <<transactions, signed_txs, signCalls, bundle_payload, block_number,
            headAdvances, builder, attempt, successes, posts, lastResp, posted, mev_builders,
            lastSleep, refreshCount, sb_result>>

exVars == <<tx, ex_attempt, ex_signs, ex_sends, ex_accepted, ex_lastFailure,
            ex_lastSleep>>

stVars == <<strategy, target_tx, engine, chain, valid, decoded_tx, token_symbol,
            symbolCalls, symbolAnswer, flashloan_tx, flashloan_amount, signals, score, front_run_tx, back_run_tx, nextNonce,
            nonceCalls, buildCalls, bundle, simulations>>

enVars == <<signedLog, built, call_args, tasks>>

vars == <<op, pc, result, raised, sbVars, exVars, stVars, enVars>>

\* a fresh engine
ENInit ==
    /\ signedLog = {}
    /\ built = << >>
    /\ call_args = << >>
    /\ tasks = << >>

\* the state of the variables of send_bundle before it is called, with the
\* relays the configuration lists
SBInitWith(relays) ==
    /\ mev_builders = relays
    /\ signed_txs = << >>
    /\ signCalls = 0
    /\ bundle_payload = None
    /\ block_number = 100
    /\ headAdvances = 0
    /\ builder = 1
    /\ attempt = 1
    /\ successes = << >>
    /\ posts = [b \in MEV_BUILDERS |-> 0]
    /\ lastResp = [b \in MEV_BUILDERS |-> "none"]
    /\ posted = [b \in MEV_BUILDERS |-> {}]
    /\ lastSleep = 0
    /\ refreshCount = 0
    /\ sb_result = None

SBInit == SBInitWith([i \in 1..NumBuilders |-> i])

\* the state of the variables of execute_transaction before it is called
EXInit ==
    /\ ex_attempt = 1
    /\ ex_signs = 0
    /\ ex_sends = 0
    /\ ex_accepted = 0
    /\ ex_lastFailure = "none"
    /\ ex_lastSleep = 0

\* no signal gathered
NoSignals == << >>

\* the strategy variables when no strategy is running
STIdle ==
    /\ strategy = "default"
    /\ target_tx = [isDict |-> FALSE, d |-> [unused |-> 0]]
    /\ engine = [unused |-> 0]
    /\ chain = [unused |-> 0]
    /\ signals = NoSignals

STInit ==
    /\ valid = None
    /\ decoded_tx = None
    /\ token_symbol = None
    /\ symbolCalls = 0
    /\ symbolAnswer = "unasked"
    /\ flashloan_tx = None
    /\ flashloan_amount = None
    /\ score = None
    /\ front_run_tx = None
    /\ back_run_tx = None
    /\ nextNonce = 7
    /\ nonceCalls = 0
    /\ buildCalls = 0
    /\ bundle = << >>
    /\ simulations = << >>


----------------------------------------------------------------------------
(* send_bundle *)

\* What one relay post can come back with.
\*   accepted    2xx, JSON body without an "error" field
\*   app_error   2xx, JSON body with an "error" field
\*   bad_json    2xx, body that json.loads rejects (JSONDecodeError, a
\*               ValueError)
\*   wrong_type  2xx, content type that is not JSON (ContentTypeError, a
\*               ClientResponseError)
\*   http_error  raise_for_status() raised ClientResponseError
\*   conn_error  the connection failed
\*   timeout     the 30 s timeout elapsed
RelayResponses ==
    {"accepted", "app_error", "bad_json", "wrong_type", "http_error",
     "conn_error", "timeout"}

TransportFailures == {"http_error", "conn_error", "timeout"}

\* Which branch of the try/except around the post handles the answer:
\* "success" (append and break), "abort" (except ValueError: break),
\* "retry" (except ClientResponseError / except Exception).
HandleResponse(r) ==
    CASE r = "accepted" -> "success"
      [] r \in {"app_error", "bad_json"} -> "abort"
      [] r \in TransportFailures \cup {"wrong_type"} -> "retry"

\* if attempt < max_retries: the failed attempt is followed by a sleep
RetrySleeps(k) == k < MEMPOOL_MAX_RETRIES

\* A mutation of RelayBackoff: a constant delay.
RelayBackoff_Constant(k) == MEMPOOL_RETRY_DELAY

\* asyncio.sleep(retry_delay * attempt)
RelayBackoff(k) == MEMPOOL_RETRY_DELAY * k

\* A mutation of BundleSucceeded: every relay must have accepted.
BundleSucceeded_All(s) == Len(s) = NumBuilders

\* if successes:
BundleSucceeded(s) == Len(s) > 0

\* A mutation of MoreRelays: the relays are tried until one has accepted.
MoreRelays_UntilAccepted(next, relays, accepted) ==
    next <= Len(relays) /\ accepted = << >>

\* for builder in mev_builders: the list has a next element; nothing in the
\* loop body leaves the outer loop
MoreRelays(next, relays, accepted) == next <= Len(relays)

\* A mutation of PostedPayload: every post names the block after the head
\* at the time of the post.
PostedPayload_Fresh(payload, head) == [payload EXCEPT !.blockNumber = Hex(head + 1)]

\* json=bundle_payload: a post carries the payload built before the loops,
\* whatever the chain head is by then
PostedPayload(payload, head) == payload

\* signed_txs = [await self.sign_transaction(tx) for tx in transactions]
\* then the await of web3.eth.block_number.
SB_Sign ==
    /\ pc = "sb_sign"
    /\ LET bad == {i \in 1..Len(transactions) : SignRaises(transactions[i])}
           \* members signed before the first one that raises
           n == IF bad = {} THEN Len(transactions)
                ELSE (CHOOSE i \in bad : \A j \in bad : i <= j) - 1
       IN /\ signed_txs' = [i \in 1..n |-> sign_transaction(transactions[i])]
          /\ signCalls' = signCalls + (IF bad = {} THEN n ELSE n + 1)
          /\ IF bad = {}
               THEN /\ pc' = "sb_block"
                    /\ sb_result' = sb_result
               ELSE \* except Exception: return False
                    /\ pc' = "sb_return"
                    /\ sb_result' = Some(FALSE)
    /\ signedLog' = signedLog \cup {signed_txs'[i] : i \in DOMAIN signed_txs'}
    /\ UNCHANGED <<built, call_args, tasks, op, result, raised, transactions, bundle_payload,
                   block_number, headAdvances, builder, attempt, successes,
                   posts, lastResp, posted, mev_builders, lastSleep, refreshCount, exVars, stVars>>

\* "blockNumber": hex(await self.web3.eth.block_number + 1); the read may fail
SB_BlockNumber ==
    /\ pc = "sb_block"
    /\ \E ok \in BOOLEAN :
         IF ok
           THEN /\ bundle_payload' =
                     Some([txs |-> [i \in 1..Len(signed_txs) |-> Hex(signed_txs[i])],
                           blockNumber |-> Hex(block_number + 1)])
                /\ successes' = << >>
                /\ builder' = 1
                /\ attempt' = 1
                /\ pc' = IF MoreRelays(1, mev_builders, << >>) /\ MEMPOOL_MAX_RETRIES >= 1
                           THEN "sb_post" ELSE "sb_finish"
                /\ sb_result' = sb_result
           ELSE /\ pc' = "sb_return"
                /\ sb_result' = Some(FALSE)
                /\ UNCHANGED <<bundle_payload, successes, builder, attempt>>
    /\ UNCHANGED <<enVars, op, result, raised, transactions, signed_txs, signCalls,
                   block_number, headAdvances, posts, lastResp, posted, mev_builders, lastSleep,
                   refreshCount, exVars, stVars>>

\* One session.post to the current relay and the handling of its answer, up
\* to the next post (the sleep of a retry included).
SB_Post ==
    /\ pc = "sb_post"
    /\ \E r \in RelayResponses :
         LET h == HandleResponse(r)
             again == h = "retry" /\ RetrySleeps(attempt)
             \* range(1, max_retries + 1) has a next element
             more == h = "retry" /\ attempt < MEMPOOL_MAX_RETRIES
             relay == mev_builders[builder]
         IN /\ posts' = [posts EXCEPT ![relay] = @ + 1]
            /\ lastResp' = [lastResp EXCEPT ![relay] = r]
            /\ posted' = [posted EXCEPT
                             ![relay] = @ \cup {PostedPayload(bundle_payload[1],
                                                                block_number)}]
            /\ successes' = IF h = "success" THEN Append(successes, relay)
                            ELSE successes
            /\ lastSleep' = IF again THEN RelayBackoff(attempt) ELSE 0
            /\ IF more
                 THEN /\ attempt' = attempt + 1
                      /\ builder' = builder
                      /\ pc' = "sb_post"
                 ELSE /\ attempt' = 1
                      /\ builder' = builder + 1
                      /\ pc' = IF MoreRelays(builder + 1, mev_builders, successes')
                                 THEN "sb_post" ELSE "sb_finish"
    /\ UNCHANGED <<enVars, op, result, raised, transactions, signed_txs, signCalls,
                   bundle_payload, block_number, headAdvances, refreshCount, mev_builders,
                   sb_result, exVars, stVars>>

\* noncecore.refresh_nonce(): the nonce service is asked to refresh, and
\* returns
RefreshNonce == refreshCount' = refreshCount + 1

\* if successes: await self.noncecore.refresh_nonce(); return True
\* else: return False
SB_Finish ==
    /\ pc = "sb_finish"
    /\ IF BundleSucceeded(successes)
         THEN /\ RefreshNonce
              /\ sb_result' = Some(TRUE)
         ELSE /\ refreshCount' = refreshCount
              /\ sb_result' = Some(FALSE)
    /\ pc' = "sb_return"
    /\ UNCHANGED <<enVars, op, result, raised, transactions, signed_txs, signCalls,
                   bundle_payload, block_number, headAdvances, builder,
                   attempt, successes, posts, lastResp, posted, mev_builders, lastSleep, exVars, stVars>>

\* send_bundle called directly: its return value is the caller's result
SB_Return ==
    /\ pc = "sb_return"
    /\ op = "send_bundle"
    /\ result' = sb_result
    /\ pc' = "done"
    /\ UNCHANGED <<enVars, op, raised, sbVars, exVars, stVars>>

\* a new block arrives while the call is suspended
AdvanceHead ==
    /\ pc \in {"sb_block", "sb_post", "sb_finish"}
    /\ headAdvances < MaxHeadAdvance
    /\ block_number' = block_number + 1
    /\ headAdvances' = headAdvances + 1
    /\ UNCHANGED <<enVars, op, pc, result, raised, transactions, signed_txs, signCalls,
                   bundle_payload, builder, attempt, successes, posts,
                   lastResp, posted, mev_builders, lastSleep, refreshCount, sb_result, exVars, stVars>>

----------------------------------------------------------------------------
(* Transactions handed to send_bundle when it is called directly *)

SampleTx(kind, n) ==
    [chainId |-> 1, nonce |-> n, from |-> "account.address", to |-> kind,
     gas |-> 110000, gasPrice |-> 55]

\* the same without its nonce: signing raises
Unsignable(kind) ==
    [chainId |-> 1, from |-> "account.address", to |-> kind,
     gas |-> 110000, gasPrice |-> 55]

BundleInputs ==
    { << >>,
      <<SampleTx("router", 7)>>,
      <<SampleTx("flashloan", 7), SampleTx("router", 8)>>,
      <<SampleTx("flashloan", 7), SampleTx("router", 8), SampleTx("router", 9)>>,
      <<Unsignable("router")>>,
      <<SampleTx("flashloan", 7), Unsignable("router")>>,
      <<SampleTx("flashloan", 7), Unsignable("router"), SampleTx("router", 9)>> }

InitBundle ==
    /\ op = "send_bundle"
    /\ pc = "sb_sign"
    /\ result = None
    /\ raised = FALSE
    /\ transactions \in BundleInputs
    /\ SBInit
    /\ tx = [nonce |-> 0]
    /\ EXInit
    /\ STIdle
    /\ STInit
    /\ ENInit

NextBundle ==
    \/ SB_Sign
    \/ SB_BlockNumber
    \/ SB_Post
    \/ SB_Finish
    \/ SB_Return
    \/ AdvanceHead

SpecBundle == InitBundle /\ [][NextBundle]_vars

\* send_bundle under a configuration that lists no relay, one relay or
\* every relay
InitRelays ==
    /\ op = "send_bundle"
    /\ pc = "sb_sign"
    /\ result = None
    /\ raised = FALSE
    /\ transactions \in BundleInputs
    /\ \E n \in 0..NumBuilders : SBInitWith([i \in 1..n |-> i])
    /\ tx = [nonce |-> 0]
    /\ EXInit
    /\ STIdle
    /\ STInit
    /\ ENInit

SpecRelays == InitRelays /\ [][NextBundle]_vars

----------------------------------------------------------------------------
(* execute_transaction *)

DEFAULT_GAS_PRICE_GWEI == 50

\* configuration.MAX_GAS_PRICE_GWEI, as the test fixture sets it
MAX_GAS_PRICE_GWEI == 100

\* send_raw_transaction's return value for a signed transaction
TxHash(signed) == [hash_of |-> signed]

\* What one attempt can end with.
\*   sent         send_raw_transaction returned the hash
\*   sign_error   sign_transaction raised
\*   web3_error   send_raw_transaction raised TransactionNotFound or
\*                ContractLogicError
\*   send_error   send_raw_transaction raised anything else
AttemptOutcomes(t) ==
    IF SignRaises(t) THEN {"sign_error"}
    ELSE {"sent", "web3_error", "send_error"}

\* the two except clauses of the loop body catch every Exception
ExecCatches(outcome) == TRUE

\* only the except Exception clause sleeps
ExecSleeps(outcome) == outcome \in {"sign_error", "send_error"}

\* asyncio.sleep(retry_delay * (attempt + 1))
ExecBackoff(k) == MEMPOOL_RETRY_DELAY * (k + 1)

\* Decimal(tx.get("gasPrice", self.DEFAULT_GAS_PRICE_GWEI))
ExecGasPrice(t) ==
    IF "gasPrice" \in DOMAIN t THEN t.gasPrice ELSE DEFAULT_GAS_PRICE_GWEI

\* A mutation of ExceedsCeiling: the ceiling is never found exceeded.
ExceedsCeiling_Never(t) == FALSE

\* if gas_price_gwei > self.configuration.MAX_GAS_PRICE_GWEI: return None
ExceedsCeiling(t) == ExecGasPrice(t) > MAX_GAS_PRICE_GWEI

\* A mutation of ExecLoopContinues: one attempt too many.
ExecLoopContinues_OffByOne(k) == k <= MEMPOOL_MAX_RETRIES

\* for attempt in range(1, max_retries + 1): another attempt follows attempt k
ExecLoopContinues(k) == k < MEMPOOL_MAX_RETRIES

\* One iteration of the retry loop: sign, broadcast, and on failure the
\* handler, its sleep and the gas-price check.
EX_Attempt ==
    /\ pc = "ex_attempt"
    /\ \E outcome \in AttemptOutcomes(tx) :
         /\ ex_signs' = ex_signs + 1
         /\ signedLog' = IF outcome = "sign_error" THEN signedLog
                         ELSE signedLog \cup {sign_transaction(tx)}
         /\ ex_sends' = IF outcome = "sign_error" THEN ex_sends ELSE ex_sends + 1
         /\ ex_accepted' = IF outcome = "sent" THEN ex_accepted + 1 ELSE ex_accepted
         /\ IF outcome = "sent"
              THEN \* return tx_hash.hex()
                   /\ result' = Some(Some(Hex(TxHash(sign_transaction(tx)))))
                   /\ pc' = "done"
                   /\ UNCHANGED <<raised, ex_attempt, ex_lastFailure, ex_lastSleep>>
              ELSE IF ~ExecCatches(outcome)
              THEN /\ raised' = TRUE
                   /\ pc' = "done"
                   /\ ex_lastFailure' = outcome
                   /\ UNCHANGED <<result, ex_attempt, ex_lastSleep>>
              ELSE /\ ex_lastFailure' = outcome
                   /\ ex_lastSleep' = IF ExecSleeps(outcome)
                                        THEN ExecBackoff(ex_attempt) ELSE 0
                   /\ raised' = raised
                   /\ IF ExceedsCeiling(tx) \/ ~ExecLoopContinues(ex_attempt)
                        THEN \* return None
                             /\ result' = Some(None)
                             /\ pc' = "done"
                             /\ ex_attempt' = ex_attempt
                        ELSE /\ result' = result
                             /\ pc' = "ex_attempt"
                             /\ ex_attempt' = ex_attempt + 1
    /\ UNCHANGED <<built, call_args, tasks, op, tx, sbVars, stVars>>

\* transactions handed to execute_transaction: built by build_transaction
\* (legacy or fee-market fee fields) or by handle_eth_transaction
ExecInputs ==
    { [chainId |-> 1, nonce |-> n, from |-> "account.address", to |-> "router",
       gas |-> 110000, gasPrice |-> g] : n \in {7, 8}, g \in {55, 100, 101, 220} }
    \cup
    { [chainId |-> 1, nonce |-> n, from |-> "account.address", to |-> "router",
       gas |-> 110000, maxFeePerGas |-> f, maxPriorityFeePerGas |-> 2]
         : n \in {7, 8}, f \in {60, 240} }
    \cup
    { [chainId |-> 1, from |-> "account.address", to |-> "router",
       gas |-> 21000, gasPrice |-> g] : g \in {55, 101} }

\* A mutation of ExecLoopEnters: the ceiling is looked at before the first
\* attempt.
ExecLoopEnters_BelowCeiling(t) ==
    MEMPOOL_MAX_RETRIES >= 1 /\ ExecGasPrice(t) <= MAX_GAS_PRICE_GWEI

\* for attempt in range(1, max_retries + 1): the range is not empty; no
\* statement before the loop looks at the transaction
ExecLoopEnters(t) == MEMPOOL_MAX_RETRIES >= 1

InitExec ==
    /\ op = "execute_transaction"
    /\ tx \in ExecInputs
    /\ pc = IF ExecLoopEnters(tx) THEN "ex_attempt" ELSE "done"
    /\ result = IF ExecLoopEnters(tx) THEN None ELSE Some(None)
    /\ raised = FALSE
    /\ EXInit
    /\ transactions = << >>
    /\ SBInit
    /\ STIdle
    /\ STInit
    /\ ENInit

NextExec == EX_Attempt

SpecExec == InitExec /\ [][NextExec]_vars

----------------------------------------------------------------------------
(* Addresses.  An address is [id, form]; form is "checksum", "lower" (a    *)
(* well-formed address that is not in checksum case) or "invalid".         *)

Addr(id, form) == [id |-> id, form |-> form]

\* web3.to_checksum_address raises on a malformed address
ChecksumRaises(a) == a.form = "invalid"

\* web3.to_checksum_address on a well-formed address
to_checksum_address(a) == Addr(a.id, "checksum")

----------------------------------------------------------------------------
(* Calldata.  A hex string is a sequence of two-character tokens: the      *)
(* prefix "0x", one token per selector byte, then the ABI-encoded          *)
(* arguments as one token [shape, args].                                   *)

Min(a, b) == IF a < b THEN a ELSE b

\* s[lo:hi] for even character offsets lo < hi
CharSlice(s, lo, hi) == SubSeq(s, (lo \div 2) + 1, Min(hi \div 2, Len(s)))

\* selector = input_data[2:10]
SelectorOf(input_data) == CharSlice(input_data, 2, 10)

SelSwap == <<"38", "ed", "17", "39">>

SelTransfer == <<"a9", "05", "9c", "bb">>

SelSwapOut == <<"88", "03", "db", "ee">>

SelOrphan == <<"de", "ad", "be", "ef">>

SelUnknown == <<"12", "34", "56", "78">>

\* abiregistry.get_method_selector: the selector -> method name table
MethodSelectors ==
    { <<SelSwap, "swapExactTokensForTokens">>,
      <<SelSwapOut, "swapTokensForExactTokens">>,
      <<SelTransfer, "transfer">>,
      <<SelOrphan, "claimRewards">> }

\* Optional method name of a selector
get_method_selector(selector) ==
    LET hit == {e \in MethodSelectors : e[1] = selector}
    IN IF hit = {} THEN None ELSE Some((CHOOSE e \in hit : TRUE)[2])

\* abiregistry.abis, in iteration order: abi_type and the functions of that
\* ABI as <<selector, shape of the arguments>>
AbiRegistry ==
    << [abi_type |-> "erc20",     functions |-> {<<SelTransfer, "transfer">>}],
       [abi_type |-> "aave",      functions |-> {}],
       [abi_type |-> "uniswap",   functions |-> {<<SelSwap, "swap">>}],
       [abi_type |-> "sushiswap", functions |-> {<<SelSwap, "swap">>,
                                                 <<SelSwapOut, "swap">>}] >>

\* contract.decode_function_input(input_data) succeeds under this ABI
AbiDecodes(abi, input_data) ==
    /\ Len(input_data) >= 6
    /\ input_data[1] = "0x"
    /\ <<SubSeq(input_data, 2, 5), input_data[6].shape>> \in abi.functions

\* A mutation of decode_transaction_input: the last ABI that decodes the
\* calldata names the result.
decode_transaction_input_LastAbi(input_data, contract_address) ==
    LET selector == SelectorOf(input_data)
        method_name == get_method_selector(selector)
        decoding == IF ChecksumRaises(contract_address) THEN {}
                    ELSE {i \in 1..Len(AbiRegistry) : AbiDecodes(AbiRegistry[i], input_data)}
    IN IF IsNone(method_name) THEN None
       ELSE IF decoding = {} THEN None
       ELSE LET last == CHOOSE i \in decoding : \A j \in decoding : j <= i
            IN Some([function_name |-> method_name[1],
                     params |-> input_data[6].args,
                     signature |-> selector,
                     abi_type |-> AbiRegistry[last].abi_type])

\* decode_transaction_input: Optional decoded call.  The contract handle is
\* made inside the loop's try, so an address to_checksum_address rejects
\* fails under every ABI.
decode_transaction_input(input_data, contract_address) ==
    LET selector == SelectorOf(input_data)
        method_name == get_method_selector(selector)
        decoding == IF ChecksumRaises(contract_address) THEN {}
                    ELSE {i \in 1..Len(AbiRegistry) : AbiDecodes(AbiRegistry[i], input_data)}
    IN IF IsNone(method_name) THEN None
       ELSE IF decoding = {} THEN None
       ELSE LET first == CHOOSE i \in decoding : \A j \in decoding : i <= j
            IN Some([function_name |-> method_name[1],
                     params |-> input_data[6].args,
                     signature |-> selector,
                     abi_type |-> AbiRegistry[first].abi_type])

\* the functions a router contract handle offers: the function names of
\* the ABI initialize() built it with
RouterFunctions(router) ==
    LET abi == CHOOSE a \in {AbiRegistry[i] : i \in 1..Len(AbiRegistry)} :
                 a.abi_type = router
    IN {e[2] : e \in {m \in MethodSelectors :
                        \E f \in abi.functions : f[1] = m[1]}}

----------------------------------------------------------------------------
(* _validate_transaction *)

RequiredFields == {"input", "to", "value", "gasPrice"}

\* What apiconfig.get_token_symbol can come back with: a symbol, None, the
\* empty string, or an exception.
SymbolOutcomes == {"ETH", "XYZ", "None", "", "raise"}

\* return False, None, None; asked: whether the price service was called
Rejected(asked) ==
    [valid |-> FALSE, decoded_tx |-> None, token_symbol |-> None, asked |-> asked]

\* A mutation of PathValid: a path of one token is let through.
PathValid_OneToken(params) ==
    "path" \in DOMAIN params /\ Len(params.path) >= 1

\* not (not path or not isinstance(path, list) or len(path) < 2)
PathValid(params) ==
    "path" \in DOMAIN params /\ Len(params.path) >= 2

\* A mutation of HasRequiredFields: gasPrice is not required.
HasRequiredFields_NoGasPrice(d) == (RequiredFields \ {"gasPrice"}) \subseteq DOMAIN d

\* all(field in tx for field in required_fields)
HasRequiredFields(d) == RequiredFields \subseteq DOMAIN d

\* _validate_transaction(tx, operation, min_value), given what the price
\* service answers if it is asked
ValidateTransaction(t, min_value, sym) ==
    IF ~t.isDict THEN Rejected(FALSE)
    ELSE IF ~HasRequiredFields(t.d) THEN Rejected(FALSE)
    ELSE IF ChecksumRaises(t.d.to) THEN Rejected(FALSE)
    ELSE LET decoded == decode_transaction_input(t.d.input, to_checksum_address(t.d.to))
         IN IF IsNone(decoded) THEN Rejected(FALSE)
            ELSE IF "params" \notin DOMAIN decoded[1] THEN Rejected(FALSE)
            ELSE IF ~PathValid(decoded[1].params) THEN Rejected(FALSE)
            ELSE IF sym \in {"raise", "None", ""} THEN Rejected(TRUE)
            ELSE IF t.d.value < min_value THEN Rejected(TRUE)
            ELSE [valid |-> TRUE, decoded_tx |-> decoded,
                  token_symbol |-> Some(sym), asked |-> TRUE]

----------------------------------------------------------------------------
(* Gas model and build_transaction *)

DEFAULT_GAS_LIMIT == 100000

\* What web3.eth.estimate_gas can come back with: an estimate, or
\* ContractLogicError ("reverted"), TransactionNotFound ("not_found"), or
\* any other exception ("error").
EstimateOk(g) == [kind |-> "ok", gas |-> g]

EstimateFails(kind) == [kind |-> kind, gas |-> 0]

\* except (ContractLogicError, TransactionNotFound) / except Exception
EstimateCatches(e) == TRUE

\* A mutation of estimate_gas_smart: the transfer gas on a revert.
estimate_gas_smart_Transfer(e) ==
    IF e.kind = "ok" THEN e.gas ELSE IF e.kind = "reverted" THEN 21000 ELSE 100000

\* estimate_gas_smart's return value
estimate_gas_smart(e) ==
    IF e.kind = "ok" THEN e.gas ELSE DEFAULT_GAS_LIMIT

\* int(estimated_gas * 1.1)
PadGas(g) == (g * 11) \div 10

\* What safetynet.get_dynamic_gas_price answers: Optional (None: it raised)
\* [kind, gwei], kind "int" or "decimal" for the Python type of the number
GasAnswer(kind, gwei) == Some([kind |-> kind, gwei |-> gwei])

\* gas_price_gwei * self.gas_price_multiplier raises TypeError: the
\* multiplier is the float 1.1, and the factor a Decimal (the fallback
\* Decimal(DEFAULT_GAS_PRICE_GWEI) included)
DynamicGasRaises(safetyGas) ==
    IsNone(safetyGas) \/ safetyGas[1].kind = "decimal"

\* _get_dynamic_gas_parameters: int(to_wei(gas_price_gwei * 1.1, "gwei")),
\* in units of 10^8 wei
DynamicGasPrice(safetyGas) == safetyGas[1].gwei * 11

\* A mutation of FeeFields: on a fee-market chain the legacy gasPrice is set
\* as well.
FeeFields_Mixed(ch) ==
    IF ch.eip1559
      THEN [maxFeePerGas |-> ch.baseFee * 2, maxPriorityFeePerGas |-> ch.priorityFee,
            gasPrice |-> ch.baseFee]
      ELSE [gasPrice |-> DynamicGasPrice(ch.safetyGas)]

\* the fee fields build_transaction chooses
FeeFields(ch) ==
    IF ch.eip1559
      THEN [maxFeePerGas |-> ch.baseFee * 2, maxPriorityFeePerGas |-> ch.priorityFee]
      ELSE [gasPrice |-> DynamicGasPrice(ch.safetyGas)]

\* a contract function call: contract.functions.<fn>(**args)
FunctionCall(contract, fn, args) == [contract |-> contract, fn |-> fn, args |-> args]

\* the transaction build_transaction returns for a call, a nonce and the
\* chain's answers
BuiltTx(call, n, ch) ==
    Update(Update([chainId |-> ch.chainId, nonce |-> n, from |-> "account.address"],
                  FeeFields(ch)),
           [to |-> call.contract, data |-> [fn |-> call.fn, args |-> call.args],
            gas |-> PadGas(estimate_gas_smart(ch.estimate))])

\* How one build_transaction call can end.
\*   ok           the transaction is returned
\*   chain_error  reading the chain id or the latest block raised
\*   nonce_error  noncecore.get_nonce raised
\*   fee_error    a later step raised (priority fee, gas price, encoding)
BuildOutcomes == {"ok", "chain_error", "nonce_error", "fee_error"}

\* the ways a build can end on a chain
BuildOutcomesOn(ch) ==
    IF ~ch.eip1559 /\ DynamicGasRaises(ch.safetyGas)
      THEN BuildOutcomes \ {"ok"}
      ELSE BuildOutcomes

\* get_nonce was called
AsksNonce(outcome) == outcome # "chain_error"

\* A mutation of TakesNonce: no build advances the nonce service.
TakesNonce_Never(outcome) == FALSE

\* get_nonce returned a nonce
TakesNonce(outcome) == outcome \in {"ok", "fee_error"}

\* build_transaction: Optional transaction (None: it raised)
build_transaction(call, n, ch, outcome) ==
    IF outcome = "ok" THEN Some(BuiltTx(call, n, ch)) ELSE None

\* the transaction build_transaction returns when the caller passes
\* additional_params: they are merged over the built fields, then gas is set
BuiltTxWith(call, n, ch, additional_params) ==
    Update(Update(BuiltTx(call, n, ch), additional_params),
           [gas |-> PadGas(estimate_gas_smart(ch.estimate))])

----------------------------------------------------------------------------
(* Flashloan amount *)

\* configuration.FLASHLOAN_BACK_RUN_PROFIT_PERCENTAGE, in percent
FLASHLOAN_BACK_RUN_PROFIT_PERCENTAGE == 50

\* A profit in ETH: milli / 1000 ETH plus sub / 100 wei (sub >= 0)
Profit(milli, sub) == [milli |-> milli, sub |-> sub]

\* An amount in wei: e13 * 10^13 + wei
Amount(e13, wei) == [e13 |-> e13, wei |-> wei]

\* estimated_profit > 0
ProfitPositive(p) == p.milli > 0 \/ (p.milli = 0 /\ p.sub > 0)

\* A mutation of AmountNotPositive: an amount of 0 is let through.
AmountNotPositive_Negative(a) == a.e13 < 0 \/ (a.e13 = 0 /\ a.wei < 0)

\* flashloan_amount <= 0
AmountNotPositive(a) == a.e13 < 0 \/ (a.e13 = 0 /\ a.wei <= 0)

\* target_tx.get("profit", 0)
EstimatedProfit(t) == IF "profit" \in DOMAIN t.d THEN t.d.profit ELSE Profit(0, 0)

\* A mutation of calculate_flashloan_amount: the amount is rounded up.
calculate_flashloan_amount_RoundUp(t) ==
    LET estimated_profit == EstimatedProfit(t)
    IN IF ProfitPositive(estimated_profit)
         THEN Amount(estimated_profit.milli * FLASHLOAN_BACK_RUN_PROFIT_PERCENTAGE,
                     (estimated_profit.sub * FLASHLOAN_BACK_RUN_PROFIT_PERCENTAGE
                        + (100 * 100 - 1)) \div (100 * 100))
         ELSE Amount(0, 0)

\* calculate_flashloan_amount: int(Decimal(profit) * Decimal(str(percentage))
\* * Decimal("1e18")), the percentage in percent; int() drops the fraction
\* of a wei
calculate_flashloan_amount(t) ==
    LET estimated_profit == EstimatedProfit(t)
    IN IF ProfitPositive(estimated_profit)
         THEN Amount(estimated_profit.milli * FLASHLOAN_BACK_RUN_PROFIT_PERCENTAGE,
                     (estimated_profit.sub * FLASHLOAN_BACK_RUN_PROFIT_PERCENTAGE)
                        \div (100 * 100))
         ELSE Amount(0, 0)

\* self.aave_flashloan.functions.fn_RequestFlashLoan(asset, amount)
FlashloanCall(asset, amount) ==
    FunctionCall("aave_flashloan", "fn_RequestFlashLoan",
                 [asset |-> asset, amount |-> amount])

----------------------------------------------------------------------------
(* Router resolution and the companion calls *)

\* routers[to_address]: "uniswap", "sushiswap" or "none"; a later key of the
\* dict literal replaces an equal earlier one
RouterOf(to_address, eng) ==
    IF to_address = eng.SUSHISWAP_ADDRESS THEN "sushiswap"
    ELSE IF to_address = eng.UNISWAP_ADDRESS THEN "uniswap"
    ELSE "none"

\* A mutation of RouterInitialized: the handle is taken to be there.
RouterInitialized_Always(router, eng) == TRUE

\* the router's contract handle was set by initialize()
RouterInitialized(router, eng) ==
    IF router = "uniswap" THEN eng.uniswap_router_contract
    ELSE eng.sushiswap_router_contract

\* Optional call on the router of the target, for a function name and
\* parameters: None for an unknown router, a missing handle or a function
\* the router does not have
RouterCall(t, function_name, function_params, eng) ==
    LET router == RouterOf(to_checksum_address(t.d.to), eng)
    IN IF router = "none" THEN None
       ELSE IF ~RouterInitialized(router, eng) THEN None
       ELSE IF function_name \notin RouterFunctions(router) THEN None
       ELSE Some(FunctionCall(router, function_name, function_params))

\* the call _prepare_front_run_transaction builds, from its own decode
FrontRunCall(t, eng) ==
    LET decoded == decode_transaction_input(t.d.input, to_checksum_address(t.d.to))
    IN IF IsNone(decoded) THEN None
       ELSE RouterCall(t, decoded[1].function_name, decoded[1].params, eng)

\* A mutation of ReversePath: the path is passed on as it is.
ReversePath_Identity(path) == path

\* path[::-1]
ReversePath(path) == [i \in 1..Len(path) |-> path[Len(path) + 1 - i]]

\* function_params["path"] = path[::-1]
BackRunParams(function_params) ==
    [function_params EXCEPT !.path = ReversePath(function_params.path)]

\* A mutation of TargetAfterPathWrite: the decoded parameters are the
\* target's own.
TargetAfterPathWrite_Shared(t, function_params) ==
    [t EXCEPT !.d.input =
        <<"0x">> \o SelSwap \o <<[shape |-> "swap", args |-> function_params]>>]

\* The target after function_params["path"] = path[::-1].  The write goes
\* into decoded_tx["params"], the dict decode_function_input returned to
\* decode_transaction_input; the target holds the calldata string it was
\* decoded from and is only read (target_tx.get).
TargetAfterPathWrite(t, function_params) == t

\* the call _prepare_back_run_transaction builds from decoded_tx
BackRunCall(t, decoded, eng) ==
    IF ~PathValid(decoded.params) THEN None
    ELSE RouterCall(t, decoded.function_name, BackRunParams(decoded.params), eng)

----------------------------------------------------------------------------
(* The scores.  A price change is counted in hundredths of a percent, a    *)
(* volatility in thousandths, a price in whole units; the comparisons with *)
(* a ratio of prices are cross-multiplied, which is exact for the positive *)
(* prices the model draws.                                                 *)

\* dict.get(key, default)
Get(d, key, default) == IF key \in DOMAIN d THEN d[key] ELSE default

\* market_conditions as check_market_conditions answers it
MarketConditions(bullish_trend, high_volatility, low_liquidity) ==
    [bullish_trend |-> bullish_trend, high_volatility |-> high_volatility,
     low_liquidity |-> low_liquidity]

\* sum(historical_prices)
RECURSIVE Sum(_)
Sum(s) == IF s = << >> THEN 0 ELSE Head(s) + Sum(Tail(s))

\* max(historical_prices) - min(historical_prices)
Spread(s) ==
    LET xs == {s[i] : i \in DOMAIN s}
    IN (CHOOSE x \in xs : \A y \in xs : y <= x)
         - (CHOOSE x \in xs : \A y \in xs : x <= y)

\* np.std(prices) / np.mean(prices) > num / den, for a positive mean:
\* n * sum(x^2) - sum(x)^2 over sum(x)^2 is the square of the ratio
RECURSIVE SumSquares(_)
SumSquares(s) == IF s = << >> THEN 0 ELSE Head(s) * Head(s) + SumSquares(Tail(s))

RelativeDeviationAbove(s, num, den) ==
    (Len(s) * SumSquares(s) - Sum(s) * Sum(s)) * den * den
        > num * num * Sum(s) * Sum(s)

\* A mutation of PriceChangeTerm: a change of exactly a threshold earns
\* the band.
PriceChangeTerm_NonStrict(price_change) ==
    IF price_change >= 500 THEN 40
    ELSE IF price_change >= 300 THEN 30
    ELSE IF price_change >= 100 THEN 20
    ELSE IF price_change >= 50 THEN 10
    ELSE 0

\* the price-change component: > 5.0, > 3.0, > 1.0, > 0.5 percent
PriceChangeTerm(price_change) ==
    IF price_change > 500 THEN 40
    ELSE IF price_change > 300 THEN 30
    ELSE IF price_change > 100 THEN 20
    ELSE IF price_change > 50 THEN 10
    ELSE 0

\* the historical price component: current_price > avg * 1.1, > avg * 1.05
PriceLevelTerm(current_price, historical_prices) ==
    IF historical_prices = << >> THEN 0
    ELSE IF current_price * Len(historical_prices) * 10 > Sum(historical_prices) * 11
      THEN 10
    ELSE IF current_price * Len(historical_prices) * 100 > Sum(historical_prices) * 105
      THEN 5
    ELSE 0

\* the volatility component: < 0.02, < 0.05, < 0.08
VolatilityTerm(volatility) ==
    IF volatility < 20 THEN 20
    ELSE IF volatility < 50 THEN 15
    ELSE IF volatility < 80 THEN 10
    ELSE 0

\* the market conditions component
MarketTerm(market_conditions) ==
    (IF Get(market_conditions, "bullish_trend", FALSE) THEN 10 ELSE 0)
      + (IF ~Get(market_conditions, "high_volatility", TRUE) THEN 5 ELSE 0)
      + (IF ~Get(market_conditions, "low_liquidity", TRUE) THEN 5 ELSE 0)

\* the trend component: (last / first - 1) * 100 > 0, > -1
TrendTerm(historical_prices) ==
    IF Len(historical_prices) > 1
      THEN LET first == historical_prices[1]
               last == historical_prices[Len(historical_prices)]
           IN IF last > first THEN 20
              ELSE IF last * 100 > first * 99 THEN 10
              ELSE 0
      ELSE 0

\* _calculate_opportunity_score
CalculateOpportunityScore(price_change, volatility, market_conditions, current_price, historical_prices) ==
    PriceChangeTerm(price_change)
      + PriceLevelTerm(current_price, historical_prices)
      + VolatilityTerm(volatility)
      + MarketTerm(market_conditions)
      + TrendTerm(historical_prices)

\* _calculate_volatility_score (the definition in force, the later one)
CalculateVolatilityScore(historical_prices, current_price, market_conditions) ==
    (IF Len(historical_prices) > 1
       THEN IF RelativeDeviationAbove(historical_prices, 10, 100) THEN 40
            ELSE IF RelativeDeviationAbove(historical_prices, 8, 100) THEN 30
            ELSE IF RelativeDeviationAbove(historical_prices, 5, 100) THEN 20
            ELSE IF RelativeDeviationAbove(historical_prices, 3, 100) THEN 10
            ELSE 0
       ELSE 0)
      + (IF historical_prices # << >>
           THEN LET range == Spread(historical_prices) * Len(historical_prices)
                    total == Sum(historical_prices)
                IN IF range * 5 > total THEN 30
                   ELSE IF range * 100 > total * 15 THEN 20
                   ELSE IF range * 10 > total THEN 10
                   ELSE 0
           ELSE 0)
      + (IF Get(market_conditions, "high_volatility", FALSE) THEN 20 ELSE 0)
      + (IF Get(market_conditions, "low_liquidity", FALSE) THEN 10 ELSE 0)

\* _calculate_risk_score (the definition in force, the later one): its body
\* is pass, so the call returns None
CalculateRiskScore(target, price_change) == None

----------------------------------------------------------------------------
(* The strategies *)

BaseStrategies == {"front_run", "back_run", "execute_sandwich_attack"}

EntryPoints ==
    BaseStrategies \cup
    {"aggressive_front_run", "predictive_front_run", "volatility_front_run",
     "price_dip_back_run", "flashloan_back_run", "high_volume_back_run",
     "advanced_sandwich_attack"}

\* the base strategy an entry point ends in
BaseOf(o) ==
    CASE o \in {"front_run", "aggressive_front_run", "predictive_front_run",
                "volatility_front_run"} -> "front_run"
      [] o \in {"back_run", "price_dip_back_run", "flashloan_back_run",
                "high_volume_back_run"} -> "back_run"
      [] OTHER -> "execute_sandwich_attack"

\* configuration.AGGRESSIVE_FRONT_RUN_MIN_VALUE_ETH
AGGRESSIVE_FRONT_RUN_MIN_VALUE_ETH == 1

\* the min_value a variant passes to _validate_transaction
MinValueOf(o) ==
    IF o = "aggressive_front_run" THEN AGGRESSIVE_FRONT_RUN_MIN_VALUE_ETH ELSE 0

\* configuration.PRICE_BOOST_SANDWICH_MOMENTUM_THRESHOLD, in percent
PRICE_BOOST_SANDWICH_MOMENTUM_THRESHOLD == 5

\* configuration.SANDWICH_ATTACK_GAS_PRICE_THRESHOLD_GWEI
SANDWICH_ATTACK_GAS_PRICE_THRESHOLD_GWEI == 200

SandwichStrategies == {"default", "flash_profit", "price_boost", "arbitrage", "advanced"}

\* What the collaborator a sandwich gate asks can answer: kind "raise" or
\* "value"; prices: the historical series; flag: the arbitrage answer;
\* hv, bt: the high_volatility and bullish_trend market flags.
GateSignal(kind, prices, flag, hv, bt) ==
    [kind |-> kind, prices |-> prices, flag |-> flag, hv |-> hv, bt |-> bt]

NoSignal == GateSignal("value", << >>, FALSE, FALSE, FALSE)

PriceSeries == { << >>, <<100>>, <<100, 120>>, <<100, 105>>, <<0, 5>> }

GateSignals(name) ==
    CASE name = "price_boost" ->
           {GateSignal("value", h, FALSE, FALSE, FALSE) : h \in PriceSeries}
             \cup {GateSignal("raise", << >>, FALSE, FALSE, FALSE)}
      [] name = "arbitrage" ->
           {GateSignal(k, << >>, f, FALSE, FALSE) : k \in {"value", "raise"}, f \in BOOLEAN}
      [] name = "advanced" ->
           {GateSignal("value", << >>, FALSE, hv, bt) : hv \in BOOLEAN, bt \in BOOLEAN}
             \cup {GateSignal("raise", << >>, FALSE, FALSE, FALSE)}
      [] OTHER -> {NoSignal}

\* _analyze_price_momentum(h) > threshold, for a series with h[1] > 0:
\* (h[-1] / h[0] - 1) * 100 > threshold
MomentumAbove(h, threshold) ==
    Len(h) >= 2 /\ (h[Len(h)] - h[1]) * 100 > threshold * h[1]

\* _check_sandwich_strategy: "pass", "fail" or "raise"
CheckSandwichStrategy(name, sig) ==
    CASE name = "flash_profit" ->
           \* await of the int calculate_flashloan_amount returns: TypeError
           "raise"
      [] name = "price_boost" ->
           IF sig.kind = "raise" THEN "raise"
           ELSE IF Len(sig.prices) = 0 THEN "fail"
           ELSE IF Len(sig.prices) >= 2 /\ sig.prices[1] = 0 THEN "raise"
           ELSE IF MomentumAbove(sig.prices, PRICE_BOOST_SANDWICH_MOMENTUM_THRESHOLD)
                  THEN "pass" ELSE "fail"
      [] name = "arbitrage" ->
           IF sig.kind = "raise" THEN "raise"
           ELSE IF sig.flag THEN "pass" ELSE "fail"
      [] name = "advanced" ->
           IF sig.kind = "raise" THEN "raise"
           ELSE IF sig.hv /\ sig.bt THEN "pass" ELSE "fail"
      [] OTHER -> "pass"

\* the variants that call _validate_transaction before deciding
ValidatingVariants ==
    {"aggressive_front_run", "predictive_front_run", "volatility_front_run",
     "price_dip_back_run", "high_volume_back_run", "advanced_sandwich_attack"}

\* What web3.eth.call can end with in simulate_transaction
SimOutcomes == {"ok", "reverted", "error"}

\* simulate_transaction's return value
simulate_transaction(outcome) == IF outcome = "ok" THEN "true" ELSE "false"

\* A mutation of SimulationsPassed: one passing simulation is enough.
SimulationsPassed_Any(sims) == \E i \in 1..Len(sims) : sims[i] = "true"

\* not any(isinstance(result, Exception) or not result for result in simulations)
SimulationsPassed(sims) == \A i \in 1..Len(sims) : sims[i] = "true"

\* all([...]) over the prepared members
AllPrepared(members) == \A i \in 1..Len(members) : ~IsNone(members[i])

\* A mutation of BundleMembers: the sandwich goes out without its flashloan.
BundleMembers_NoFlashloan(b, fl, fr, br) ==
    CASE b = "front_run" -> <<fl, fr>>
      [] b = "back_run" -> <<br>>
      [] OTHER -> <<fr, br>>

\* A mutation of BundleMembers: the front-run goes before the flashloan.
BundleMembers_FrontRunFirst(b, fl, fr, br) ==
    CASE b = "front_run" -> <<fr, fl>>
      [] b = "back_run" -> <<br>>
      [] OTHER -> <<fr, fl, br>>

\* the transactions a base strategy puts into its bundle, in order
BundleMembers(b, fl, fr, br) ==
    CASE b = "front_run" -> <<fl, fr>>
      [] b = "back_run" -> <<br>>
      [] OTHER -> <<fl, fr, br>>

\* the result of one _validate_transaction call is stored
Validated(v, sym) ==
    /\ valid' = Some(v.valid)
    /\ decoded_tx' = v.decoded_tx
    /\ token_symbol' = v.token_symbol
    /\ symbolCalls' = symbolCalls + (IF v.asked THEN 1 ELSE 0)
    /\ symbolAnswer' = IF v.asked THEN sym ELSE symbolAnswer

\* one build_transaction call and what it does to the nonce service
Built(outcome) ==
    /\ buildCalls' = buildCalls + 1
    /\ nonceCalls' = nonceCalls + (IF AsksNonce(outcome) THEN 1 ELSE 0)
    /\ nextNonce' = nextNonce + (IF TakesNonce(outcome) THEN 1 ELSE 0)

NotBuilt == UNCHANGED <<buildCalls, nonceCalls, nextNonce>>

\* configuration.FRONT_RUN_OPPORTUNITY_SCORE_THRESHOLD
FRONT_RUN_OPPORTUNITY_SCORE_THRESHOLD == 75

\* configuration.VOLATILITY_FRONT_RUN_SCORE_THRESHOLD
VOLATILITY_FRONT_RUN_SCORE_THRESHOLD == 75

\* the variants that gather their signals with asyncio.gather
GatheringVariants == {"predictive_front_run", "volatility_front_run"}

\* the calls of one gather, by the name their answer is bound to
SignalNames(o) ==
    IF o = "predictive_front_run"
      THEN {"predicted_price", "current_price", "market_conditions", "historical_prices"}
      ELSE {"market_conditions", "current_price", "historical_prices"}

\* The state of one gathered call: kind "running", "raise" (gather hands the
\* exception back as the answer), "none" or "value" with v = <<the value>>.
Answer(kind, v) == [kind |-> kind, v |-> v]

SignalOutcomes(name) ==
    {Answer("raise", None), Answer("none", None)}
      \cup {Answer("value", Some(x)) :
              x \in CASE name = "predicted_price" -> {106}
                      [] name = "current_price" -> {100}
                      [] name = "market_conditions" ->
                           {MarketConditions(TRUE, FALSE, FALSE),
                            MarketConditions(FALSE, TRUE, TRUE)}
                      [] OTHER -> {<< >>, <<100>>, <<100, 130>>}}

\* the list a historical_prices answer is iterated as; None and [] are
\* both falsy, which is all the scores ask of them
PriceList(a) == IF a.kind = "value" THEN a.v[1] ELSE << >>

\* (predicted_price / float(current_price) - 1) * 100, in hundredths of a
\* percent
PriceChange(predicted_price, current_price) ==
    (predicted_price * 100 * 100) \div current_price - 100 * 100

\* np.std(prices) / np.mean(prices) if prices else 0, in thousandths
\* (rounded down, at most MaxVolatility)
MaxVolatility == 150

Volatility(historical_prices) ==
    IF historical_prices = << >> THEN 0
    ELSE LET n == Len(historical_prices)
             s2 == Sum(historical_prices) * Sum(historical_prices)
             d == (n * SumSquares(historical_prices) - s2) * 1000 * 1000
         IN CHOOSE k \in 0..MaxVolatility :
              /\ k * k * s2 <= d
              /\ k < MaxVolatility => (k + 1) * (k + 1) * s2 > d

\* Incomplete, as the variant's own check after the gather sees it
Incomplete(o, sig) ==
    \/ \E n \in DOMAIN sig : sig[n].kind = "raise"
    \/ /\ o = "predictive_front_run"
       /\ \/ sig["current_price"].kind = "none"
          \/ sig["predicted_price"].kind = "none"

\* What the code after the check raises on: market_conditions.get on None
\* inside the score function, and in volatility_front_run min() of a None
\* or empty history in the log line.
ScoringRaises(o, sig) ==
    \/ sig["market_conditions"].kind = "none"
    \/ /\ o = "volatility_front_run"
       /\ PriceList(sig["historical_prices"]) = << >>

\* the score the variant computes from its signals
VariantScore(o, sig) ==
    LET market_conditions == sig["market_conditions"].v[1]
        historical_prices == PriceList(sig["historical_prices"])
    IN IF o = "predictive_front_run"
         THEN LET current_price == sig["current_price"].v[1]
                  predicted_price == sig["predicted_price"].v[1]
              IN CalculateOpportunityScore(
                     PriceChange(predicted_price, current_price),
                     Volatility(historical_prices), market_conditions,
                     current_price, historical_prices)
         ELSE \* current_price is passed on but never read
              CalculateVolatilityScore(historical_prices, 0, market_conditions)

ScoreThreshold(o) ==
    IF o = "predictive_front_run" THEN FRONT_RUN_OPPORTUNITY_SCORE_THRESHOLD
    ELSE VOLATILITY_FRONT_RUN_SCORE_THRESHOLD

\* a variant validates the target
V_Validate ==
    /\ pc = "v_validate"
    /\ \E sym \in SymbolOutcomes :
         LET v == ValidateTransaction(target_tx, MinValueOf(op), sym)
         IN /\ Validated(v, sym)
            /\ IF v.valid
                 THEN /\ pc' = IF op \in GatheringVariants THEN "v_gather" ELSE "v_decide"
                      /\ result' = result
                 ELSE /\ pc' = "done"
                      /\ result' = Some(FALSE)
    /\ UNCHANGED <<enVars, op, raised, sbVars, exVars, strategy, target_tx, engine, chain,
                   flashloan_tx, flashloan_amount, signals, score, front_run_tx, back_run_tx, nextNonce, nonceCalls,
                   buildCalls, bundle, simulations>>

\* configuration.AGGRESSIVE_FRONT_RUN_RISK_SCORE_THRESHOLD, in hundredths
AGGRESSIVE_FRONT_RUN_RISK_SCORE_THRESHOLD == 70

\* configuration.PRICE_DIP_BACK_RUN_THRESHOLD, in percent
PRICE_DIP_BACK_RUN_THRESHOLD == 99

\* configuration.MIN_PROFIT, in thousandths of an ETH
MIN_PROFIT == 1

\* a call the variant did not get to
Unasked == Answer("unasked", None)

\* What the calls a variant awaits one after the other can answer, by the
\* name the answer is bound to.  A 24h price change is in hundredths of a
\* percent.  flashloan_back_run asks no collaborator: its one value is the
\* flashloan amount it computes from the target (an exception for a target
\* that has no get).
DecisionSignals(o, t) ==
    LET failures == {Answer("raise", None), Answer("none", None)}
        Values(S) == {Answer("value", Some(x)) : x \in S}
    IN CASE o = "aggressive_front_run" ->
              {[price_change_24h |-> a] :
                 a \in {Answer("raise", None)} \cup Values({150, 1100})}
         [] o = "price_dip_back_run" ->
              {[current_price |-> c, predicted_price |-> Unasked] : c \in failures}
                \cup {[current_price |-> Answer("value", Some(100)), predicted_price |-> p] :
                        p \in failures \cup Values({98, 99, 100})}
         [] o = "high_volume_back_run" ->
              {[volume_24h |-> a] :
                 a \in failures \cup Values({10000, 10001, 1000000, 1000001})}
         [] o = "advanced_sandwich_attack" ->
              {[market_conditions |-> a] :
                 a \in failures
                        \cup Values({MarketConditions(bt, hv, FALSE) :
                                       bt \in BOOLEAN, hv \in BOOLEAN})}
         [] OTHER ->
              {[estimated_amount |->
                  IF t.isDict THEN Answer("value", Some(calculate_flashloan_amount(t)))
                  ELSE Answer("raise", None)]}

\* _get_volume_threshold
VolumeThreshold(symbol) ==
    CASE symbol = "ETH" -> 1000000
      [] symbol = "BTC" -> 500000
      [] symbol = "USDT" -> 200000
      [] symbol = "BNB" -> 100000
      [] symbol = "ADA" -> 50000
      [] OTHER -> 10000

\* A mutation of DipPredicted: a predicted price at the threshold counts.
DipPredicted_AtThreshold(predicted_price, current_price) ==
    predicted_price * 100 <= current_price * PRICE_DIP_BACK_RUN_THRESHOLD

\* predicted_price < float(current_price) * PRICE_DIP_BACK_RUN_THRESHOLD
DipPredicted(predicted_price, current_price) ==
    predicted_price * 100 < current_price * PRICE_DIP_BACK_RUN_THRESHOLD

\* estimated_amount * Decimal(str(FLASHLOAN_BACK_RUN_PROFIT_PERCENTAGE)) >
\* MIN_PROFIT, for an amount in wei and a MIN_PROFIT below 10^11 ETH
ProfitAboveMin(a) ==
    \/ a.e13 > 0
    \/ a.e13 = 0 /\ a.wei * FLASHLOAN_BACK_RUN_PROFIT_PERCENTAGE * 10 > MIN_PROFIT

\* How the decision of a variant ends on the answers sig, after its
\* validation: "go" (the base strategy is called), "no-go" (return False)
\* or "raise" (an exception leaves the variant: none of these variants has
\* a try block around its decision).
Decision(o, sig, symbol, t) ==
    CASE o = "aggressive_front_run" ->
           IF sig.price_change_24h.kind = "raise" THEN "raise"
           ELSE LET r == CalculateRiskScore(t, sig.price_change_24h.v[1])
                IN \* risk_score, market_conditions = None: TypeError
                   IF IsNone(r) THEN "raise"
                   ELSE IF r[1] >= AGGRESSIVE_FRONT_RUN_RISK_SCORE_THRESHOLD
                     THEN "go" ELSE "no-go"
      [] o = "price_dip_back_run" ->
           IF sig.current_price.kind = "raise" THEN "raise"
           ELSE IF sig.current_price.kind = "none" THEN "no-go"
           \* None < float raises TypeError
           ELSE IF sig.predicted_price.kind \in {"raise", "none"} THEN "raise"
           ELSE IF DipPredicted(sig.predicted_price.v[1], sig.current_price.v[1])
             THEN "go" ELSE "no-go"
      [] o = "high_volume_back_run" ->
           \* None > float raises TypeError
           IF sig.volume_24h.kind \in {"raise", "none"} THEN "raise"
           ELSE IF sig.volume_24h.v[1] > VolumeThreshold(symbol[1])
             THEN "go" ELSE "no-go"
      [] o = "advanced_sandwich_attack" ->
           \* None.get raises AttributeError
           IF sig.market_conditions.kind \in {"raise", "none"} THEN "raise"
           ELSE IF Get(sig.market_conditions.v[1], "high_volatility", FALSE)
                     /\ Get(sig.market_conditions.v[1], "bullish_trend", FALSE)
             THEN "go" ELSE "no-go"
      [] OTHER ->
           \* flashloan_back_run: await of the int that
           \* calculate_flashloan_amount returned raises TypeError
           "raise"

\* a variant asks for its signals, one call after the other, and decides
V_Decide ==
    /\ pc = "v_decide"
    /\ \E sig \in DecisionSignals(op, target_tx) :
         LET d == Decision(op, sig, token_symbol, target_tx)
         IN /\ signals' = sig
            /\ CASE d = "go" -> /\ pc' = "v_call"
                                /\ UNCHANGED <<result, raised>>
                 [] d = "no-go" -> /\ pc' = "done"
                                   /\ result' = Some(FALSE)
                                   /\ raised' = raised
                 [] OTHER -> /\ pc' = "done"
                             /\ raised' = TRUE
                             /\ result' = result
    /\ UNCHANGED <<enVars, op, sbVars, exVars, strategy, target_tx, engine, chain, valid,
                   decoded_tx, token_symbol, symbolCalls, symbolAnswer, flashloan_tx,
                   flashloan_amount, score, front_run_tx, back_run_tx, nextNonce,
                   nonceCalls, buildCalls, bundle, simulations>>

\* asyncio.gather(..., return_exceptions=True): the calls are issued together
V_Gather ==
    /\ pc = "v_gather"
    /\ signals' = [n \in SignalNames(op) |-> Answer("running", None)]
    /\ pc' = "v_signals"
    /\ UNCHANGED <<enVars, op, result, raised, sbVars, exVars, strategy, target_tx, engine,
                   chain, valid, decoded_tx, token_symbol, symbolCalls, symbolAnswer,
                   flashloan_tx, flashloan_amount, score, front_run_tx, back_run_tx,
                   nextNonce, nonceCalls, buildCalls, bundle, simulations>>

\* one of the gathered calls completes, in any order
V_Signal ==
    /\ pc = "v_signals"
    /\ \E n \in DOMAIN signals :
         /\ signals[n].kind = "running"
         /\ \E a \in SignalOutcomes(n) : signals' = [signals EXCEPT ![n] = a]
    /\ UNCHANGED <<enVars, op, pc, result, raised, sbVars, exVars, strategy, target_tx,
                   engine, chain, valid, decoded_tx, token_symbol, symbolCalls,
                   symbolAnswer, flashloan_tx, flashloan_amount, score, front_run_tx,
                   back_run_tx, nextNonce, nonceCalls, buildCalls, bundle, simulations>>

\* the gather is joined: the completeness check, the score and the decision
V_Join ==
    /\ pc = "v_signals"
    /\ \A n \in DOMAIN signals : signals[n].kind # "running"
    /\ IF Incomplete(op, signals)
         THEN /\ pc' = "done"
              /\ result' = Some(FALSE)
              /\ UNCHANGED <<raised, score>>
       ELSE IF signals["market_conditions"].kind = "none"
         THEN \* AttributeError inside the score function
              /\ pc' = "done"
              /\ raised' = TRUE
              /\ UNCHANGED <<result, score>>
       ELSE LET sc == VariantScore(op, signals)
            IN /\ score' = Some(sc)
               /\ IF ScoringRaises(op, signals)
                    THEN /\ pc' = "done"
                         /\ raised' = TRUE
                         /\ result' = result
                  ELSE IF sc >= ScoreThreshold(op)
                    THEN /\ pc' = "v_call"
                         /\ UNCHANGED <<result, raised>>
                  ELSE /\ pc' = "done"
                       /\ result' = Some(FALSE)
                       /\ raised' = raised
    /\ UNCHANGED <<enVars, op, sbVars, exVars, strategy, target_tx, engine, chain, valid,
                   decoded_tx, token_symbol, symbolCalls, symbolAnswer, flashloan_tx,
                   flashloan_amount, signals, front_run_tx, back_run_tx, nextNonce,
                   nonceCalls, buildCalls, bundle, simulations>>

\* return await self.front_run(target_tx) (or back_run, or
\* execute_sandwich_attack): the variant's locals are not read again
V_Call ==
    /\ pc = "v_call"
    /\ pc' = "validate"
    /\ signals' = NoSignals
    /\ score' = None
    /\ UNCHANGED <<enVars, op, result, raised, sbVars, exVars, strategy, target_tx, engine,
                   chain, valid, decoded_tx, token_symbol, symbolCalls, symbolAnswer,
                   flashloan_tx, flashloan_amount, front_run_tx, back_run_tx,
                   nextNonce, nonceCalls, buildCalls, bundle, simulations>>

\* A mutation of AfterValidation: the sandwich prepares without asking its
\* gate.
AfterValidation_NoGate(b) ==
    IF b = "back_run" THEN "prep_back" ELSE "prep_flashloan"

\* the statement a base strategy goes on with after a passed validation
AfterValidation(b) ==
    CASE b = "front_run" -> "prep_flashloan"
      [] b = "back_run" -> "prep_back"
      [] OTHER -> "gate"

\* valid, decoded_tx, token_symbol = await self._validate_transaction(...)
ST_Validate ==
    /\ pc = "validate"
    /\ \E sym \in SymbolOutcomes :
         LET v == ValidateTransaction(target_tx, 0, sym)
         IN /\ Validated(v, sym)
            /\ IF v.valid
                 THEN /\ pc' = AfterValidation(BaseOf(op))
                      /\ result' = result
                 ELSE /\ pc' = "done"
                      /\ result' = Some(FALSE)
    /\ UNCHANGED <<enVars, op, raised, sbVars, exVars, strategy, target_tx, engine, chain,
                   flashloan_tx, flashloan_amount, signals, score, front_run_tx, back_run_tx, nextNonce, nonceCalls,
                   buildCalls, bundle, simulations>>

\* should_execute = await self._check_sandwich_strategy(...)
ST_Gate ==
    /\ pc = "gate"
    /\ \E sig \in GateSignals(strategy) :
         /\ signals' = [gate |-> sig]
         /\ IF CheckSandwichStrategy(strategy, sig) = "pass"
              THEN /\ pc' = "prep_flashloan"
                   /\ result' = result
              ELSE \* return False, also from the except clause
                   /\ pc' = "done"
                   /\ result' = Some(FALSE)
    /\ UNCHANGED <<enVars, op, raised, sbVars, exVars, strategy, target_tx, engine, chain,
                   valid, decoded_tx, token_symbol, symbolCalls, symbolAnswer,
                   flashloan_tx, flashloan_amount, score, front_run_tx, back_run_tx,
                   nextNonce, nonceCalls, buildCalls, bundle, simulations>>

\* flashloan_tx = await self._prepare_flashloan(path[0], target_tx)
ST_PrepareFlashloan ==
    /\ pc = "prep_flashloan"
    /\ LET amount == calculate_flashloan_amount(target_tx)
           asset == to_checksum_address(decoded_tx[1].params.path[1])
       IN /\ flashloan_amount' = Some(amount)
          /\ IF AmountNotPositive(amount)
            THEN /\ flashloan_tx' = None
                 /\ NotBuilt
                 /\ pc' = "prep_front"
                 /\ result' = result
            ELSE IF ChecksumRaises(decoded_tx[1].params.path[1])
            THEN \* the exception reaches the strategy's except clause
                 /\ flashloan_tx' = None
                 /\ NotBuilt
                 /\ pc' = "done"
                 /\ result' = Some(FALSE)
            ELSE \E outcome \in BuildOutcomesOn(chain) :
                   /\ flashloan_tx' = build_transaction(FlashloanCall(asset, amount),
                                                        nextNonce, chain, outcome)
                   /\ Built(outcome)
                   /\ pc' = "prep_front"
                   /\ result' = result
    /\ UNCHANGED <<enVars, op, raised, sbVars, exVars, strategy, target_tx, engine,
                   chain, valid, decoded_tx, token_symbol, symbolCalls, symbolAnswer,
                   signals, score, front_run_tx, back_run_tx, bundle, simulations>>

\* front_run_tx = await self._prepare_front_run_transaction(target_tx)
ST_PrepareFrontRun ==
    /\ pc = "prep_front"
    /\ LET call == FrontRunCall(target_tx, engine)
       IN IF IsNone(call)
            THEN /\ front_run_tx' = None
                 /\ NotBuilt
            ELSE \E outcome \in BuildOutcomesOn(chain) :
                   /\ front_run_tx' = build_transaction(call[1], nextNonce, chain, outcome)
                   /\ Built(outcome)
    /\ pc' = IF BaseOf(op) = "front_run" THEN "bundle" ELSE "prep_back"
    /\ UNCHANGED <<enVars, op, result, raised, sbVars, exVars, strategy, target_tx, engine,
                   chain, valid, decoded_tx, token_symbol, symbolCalls, symbolAnswer,
                   flashloan_tx, flashloan_amount, signals, score, back_run_tx, bundle, simulations>>

\* back_run_tx = await self._prepare_back_run_transaction(target_tx, decoded_tx)
ST_PrepareBackRun ==
    /\ pc = "prep_back"
    /\ LET call == BackRunCall(target_tx, decoded_tx[1], engine)
       IN /\ decoded_tx' = IF PathValid(decoded_tx[1].params)
                             THEN Some([decoded_tx[1] EXCEPT
                                          !.params = BackRunParams(decoded_tx[1].params)])
                             ELSE decoded_tx
          /\ target_tx' = IF PathValid(decoded_tx[1].params)
                            THEN TargetAfterPathWrite(target_tx,
                                                      BackRunParams(decoded_tx[1].params))
                            ELSE target_tx
          /\ IF IsNone(call)
               THEN /\ back_run_tx' = None
                    /\ NotBuilt
               ELSE \E outcome \in BuildOutcomesOn(chain) :
                      /\ back_run_tx' = build_transaction(call[1], nextNonce, chain, outcome)
                      /\ Built(outcome)
    /\ pc' = "bundle"
    /\ UNCHANGED <<enVars, op, result, raised, sbVars, exVars, strategy, engine,
                   chain, valid, token_symbol, symbolCalls, symbolAnswer, flashloan_tx, flashloan_amount, signals, score,
                   front_run_tx, bundle, simulations>>

\* if not all([...]): return False; otherwise _validate_and_send_bundle
\* starts one simulation per member (asyncio.gather)
ST_Bundle ==
    /\ pc = "bundle"
    /\ LET members == BundleMembers(BaseOf(op), flashloan_tx, front_run_tx, back_run_tx)
       IN IF AllPrepared(members)
            THEN /\ bundle' = [i \in 1..Len(members) |-> members[i][1]]
                 /\ simulations' = [i \in 1..Len(members) |-> "running"]
                 /\ pc' = "simulate"
                 /\ result' = result
            ELSE /\ pc' = "done"
                 /\ result' = Some(FALSE)
                 /\ UNCHANGED <<bundle, simulations>>
    /\ UNCHANGED <<enVars, op, raised, sbVars, exVars, strategy, target_tx, engine, chain,
                   valid, decoded_tx, token_symbol, symbolCalls, symbolAnswer, flashloan_tx, flashloan_amount, signals, score,
                   front_run_tx, back_run_tx, nextNonce, nonceCalls, buildCalls>>

\* one of the running simulations completes
ST_Simulate ==
    /\ pc = "simulate"
    /\ \E i \in 1..Len(simulations), outcome \in SimOutcomes :
         /\ simulations[i] = "running"
         /\ simulations' = [simulations EXCEPT ![i] = simulate_transaction(outcome)]
    /\ UNCHANGED <<enVars, op, pc, result, raised, sbVars, exVars, strategy, target_tx,
                   engine, chain, valid, decoded_tx, token_symbol, symbolCalls, symbolAnswer,
                   flashloan_tx, flashloan_amount, signals, score, front_run_tx, back_run_tx, nextNonce, nonceCalls,
                   buildCalls, bundle>>

\* the gather returns: return False on a failed simulation, otherwise
\* return await self.send_bundle(transactions)
ST_Join ==
    /\ pc = "simulate"
    /\ \A i \in 1..Len(simulations) : simulations[i] # "running"
    /\ IF SimulationsPassed(simulations)
         THEN /\ transactions' = bundle
              /\ pc' = "sb_sign"
              /\ result' = result
         ELSE /\ pc' = "done"
              /\ result' = Some(FALSE)
              /\ transactions' = transactions
    /\ UNCHANGED <<enVars, op, raised, signed_txs, signCalls, bundle_payload, block_number,
                   headAdvances, builder, attempt, successes, posts, lastResp, posted, mev_builders,
                   lastSleep, refreshCount, sb_result, exVars, stVars>>

\* the base strategy returns what send_bundle returned
ST_Return ==
    /\ pc = "sb_return"
    /\ op \in EntryPoints
    /\ result' = sb_result
    /\ pc' = "done"
    /\ UNCHANGED <<enVars, op, raised, sbVars, exVars, stVars>>

----------------------------------------------------------------------------
(* Targets, configurations and chains the strategies are run on *)

TokenA == Addr("tokenA", "lower")

TokenB == Addr("tokenB", "checksum")

TokenC == Addr("tokenC", "lower")

TokenBad == Addr("tokenBad", "invalid")

SwapArgs(path) ==
    [amountIn |-> 10, amountOutMin |-> 9, path |-> path,
     to |-> Addr("victim", "checksum"), deadline |-> 99]

TransferArgs == [recipient |-> Addr("victim", "checksum"), amount |-> 10]

Calldata(selector, shape, args) ==
    <<"0x">> \o selector \o <<[shape |-> shape, args |-> args]>>

SwapData(path) == Calldata(SelSwap, "swap", SwapArgs(path))

TargetDict(input, to, value, profit) ==
    [input |-> input, to |-> to, value |-> value, gasPrice |-> 50,
     profit |-> Profit(profit, 0)]

Target(d) == [isDict |-> TRUE, d |-> d]

BaseTarget == Target(TargetDict(SwapData(<<TokenA, TokenB, TokenC>>), Addr("uniswap", "lower"), 2, 3))

\* the record d without the key k
Without(d, k) == [f \in DOMAIN d \ {k} |-> d[f]]

\* targets every check of _validate_transaction lets through
ValidTargets ==
    { BaseTarget,
      Target(TargetDict(SwapData(<<TokenA, TokenB>>), Addr("uniswap", "lower"), 2, 3)),
      Target(TargetDict(SwapData(<<TokenB, TokenA>>), Addr("sushiswap", "checksum"), 2, 3)),
      Target(TargetDict(SwapData(<<TokenA, TokenB>>), Addr("other", "checksum"), 2, 3)),
      Target(TargetDict(SwapData(<<TokenBad, TokenB>>), Addr("uniswap", "lower"), 2, 3)),
      Target(TargetDict(Calldata(SelSwapOut, "swap", SwapArgs(<<TokenA, TokenB>>)),
                        Addr("uniswap", "lower"), 2, 3)),
      Target(Without(BaseTarget.d, "profit")),
      Target([BaseTarget.d EXCEPT !.profit = Profit(0, 0)]),
      Target([BaseTarget.d EXCEPT !.profit = Profit(0 - 5, 0)]),
      Target([BaseTarget.d EXCEPT !.profit = Profit(0, 150)]),
      Target([BaseTarget.d EXCEPT !.profit = Profit(0, 350)]),
      Target([BaseTarget.d EXCEPT !.profit = Profit(2000, 0)]),
      Target(TargetDict(SwapData(<<TokenA, TokenB, TokenC>>), Addr("uniswap", "lower"), 0, 3)) }

\* targets with a required field missing, or that are not a dict
MalformedTargets ==
    { [isDict |-> FALSE, d |-> [unused |-> 0]] }
    \cup { Target(Without(BaseTarget.d, k)) : k \in RequiredFields }
    \cup { Target(Without(Without(BaseTarget.d, "input"), "to")) }

\* targets with the four fields that a later check rejects
UndecodableTargets ==
    { Target(TargetDict(SwapData(<<TokenA, TokenB>>), Addr("uniswap", "invalid"), 2, 3)),
      Target(TargetDict(<<"0x">>, Addr("uniswap", "lower"), 2, 3)),
      Target(TargetDict(Calldata(SelUnknown, "swap", SwapArgs(<<TokenA, TokenB>>)),
                        Addr("uniswap", "lower"), 2, 3)),
      Target(TargetDict(Calldata(SelOrphan, "claim", [unused |-> 0]),
                        Addr("uniswap", "lower"), 2, 3)),
      Target(TargetDict(Calldata(SelTransfer, "transfer", TransferArgs),
                        Addr("uniswap", "lower"), 2, 3)),
      Target(TargetDict(SwapData(<<TokenA>>), Addr("uniswap", "lower"), 2, 3)),
      Target(TargetDict(SwapData(<< >>), Addr("uniswap", "lower"), 2, 3)) }

Targets == ValidTargets \cup MalformedTargets \cup UndecodableTargets

BaseEngine ==
    [UNISWAP_ADDRESS |-> Addr("uniswap", "checksum"),
     SUSHISWAP_ADDRESS |-> Addr("sushiswap", "checksum"),
     uniswap_router_contract |-> TRUE,
     sushiswap_router_contract |-> TRUE]

Engines ==
    { BaseEngine,
      [BaseEngine EXCEPT !.uniswap_router_contract = FALSE],
      [BaseEngine EXCEPT !.SUSHISWAP_ADDRESS = Addr("uniswap", "checksum")] }

BaseChain ==
    [chainId |-> 1, eip1559 |-> FALSE, baseFee |-> 0, priorityFee |-> 0,
     safetyGas |-> GasAnswer("int", 40), estimate |-> EstimateOk(50000)]

Chains ==
    { BaseChain,
      [BaseChain EXCEPT !.eip1559 = TRUE, !.baseFee = 30, !.priorityFee = 2],
      [BaseChain EXCEPT !.safetyGas = None],
      [BaseChain EXCEPT !.safetyGas = GasAnswer("decimal", 40)],
      [BaseChain EXCEPT !.estimate = EstimateFails("reverted")] }

\* The runs: every entry point on every rejected target, the base
\* strategies on every target, and the base strategies on the base target
\* under every configuration, chain and sandwich sub-strategy.
Scenario(o, s, t, e, c) ==
    \/ /\ s = "default" /\ e = BaseEngine /\ c = BaseChain
       /\ \/ o \in BaseStrategies
          \/ t \in MalformedTargets \cup UndecodableTargets \cup {BaseTarget}
          \/ o = "aggressive_front_run"
    \/ /\ o \in BaseStrategies /\ t = BaseTarget /\ s = "default"
    \/ /\ o = "execute_sandwich_attack" /\ t = BaseTarget
       /\ e = BaseEngine /\ c = BaseChain

Init ==
    /\ op \in EntryPoints
    /\ strategy \in SandwichStrategies
    /\ target_tx \in Targets
    /\ engine \in Engines
    /\ chain \in Chains
    /\ Scenario(op, strategy, target_tx, engine, chain)
    /\ pc = CASE op \in BaseStrategies -> "validate"
              [] op \in ValidatingVariants -> "v_validate"
              [] OTHER -> "v_decide"
    /\ result = None
    /\ raised = FALSE
    /\ transactions = << >>
    /\ SBInit
    /\ tx = [nonce |-> 0]
    /\ EXInit
    /\ signals = NoSignals
    /\ STInit
    /\ ENInit

Next ==
    \/ V_Validate
    \/ V_Decide
    \/ V_Gather
    \/ V_Signal
    \/ V_Join
    \/ V_Call
    \/ ST_Validate
    \/ ST_Gate
    \/ ST_PrepareFlashloan
    \/ ST_PrepareFrontRun
    \/ ST_PrepareBackRun
    \/ ST_Bundle
    \/ ST_Simulate
    \/ ST_Join
    \/ SB_Sign
    \/ SB_BlockNumber
    \/ SB_Post
    \/ SB_Finish
    \/ ST_Return

Spec == Init /\ [][Next]_vars

----------------------------------------------------------------------------
(* estimate_gas_smart called on its own *)

EstimateOutcomes ==
    {EstimateOk(g) : g \in {21000, 50000, 100000, 250000}}
    \cup {EstimateFails(k) : k \in {"reverted", "not_found", "error"}}

\* gas_estimate = await self.web3.eth.estimate_gas(tx), and the two except
\* clauses
EG_Estimate ==
    /\ pc = "eg_estimate"
    /\ \E e \in EstimateOutcomes :
         IF EstimateCatches(e)
           THEN /\ result' = Some(estimate_gas_smart(e))
                /\ raised' = raised
                /\ chain' = [chain EXCEPT !.estimate = e]
           ELSE /\ raised' = TRUE
                /\ result' = result
                /\ chain' = [chain EXCEPT !.estimate = e]
    /\ pc' = "done"
    /\ UNCHANGED <<enVars, op, sbVars, exVars, strategy, target_tx, engine, valid,
                   decoded_tx, token_symbol, symbolCalls, symbolAnswer, flashloan_tx, flashloan_amount, signals, score,
                   front_run_tx, back_run_tx, nextNonce, nonceCalls, buildCalls,
                   bundle, simulations>>

InitGas ==
    /\ op = "estimate_gas_smart"
    /\ pc = "eg_estimate"
    /\ result = None
    /\ raised = FALSE
    /\ tx \in ExecInputs
    /\ EXInit
    /\ transactions = << >>
    /\ SBInit
    /\ strategy = "default"
    /\ target_tx = [isDict |-> FALSE, d |-> [unused |-> 0]]
    /\ engine = [unused |-> 0]
    /\ chain \in Chains
    /\ signals = NoSignals
    /\ STInit
    /\ ENInit

NextGas == EG_Estimate

SpecGas == InitGas /\ [][NextGas]_vars

----------------------------------------------------------------------------
(* The score functions called on their own *)

ScoreFunctions ==
    {"_calculate_opportunity_score", "_calculate_volatility_score",
     "_calculate_risk_score"}

ScoreArgs(price_change, volatility, market_conditions, prices) ==
    [price_change |-> price_change, volatility |-> volatility,
     market_conditions |-> market_conditions,
     current_price |-> prices.current, historical_prices |-> prices.hist]

ScorePriceChanges == {0 - 600, 0, 50, 51, 100, 101, 300, 301, 500, 501}

ScoreVolatilities == {0, 20, 50, 80}

ScoreMarkets ==
    {<< >>, MarketConditions(TRUE, FALSE, FALSE), MarketConditions(FALSE, TRUE, TRUE)}

ScorePrices ==
    {[current |-> 100, hist |-> << >>], [current |-> 100, hist |-> <<100>>],
     [current |-> 120, hist |-> <<100, 101>>], [current |-> 100, hist |-> <<100, 95>>],
     [current |-> 106, hist |-> <<100, 100>>], [current |-> 100, hist |-> <<100, 130>>],
     [current |-> 100, hist |-> <<80, 100, 120>>]}

\* the call: its return value becomes the result
SC_Score ==
    /\ pc = "score"
    /\ result' = Some(
         CASE op = "_calculate_opportunity_score" ->
                Some(CalculateOpportunityScore(signals.price_change, signals.volatility,
                                               signals.market_conditions,
                                               signals.current_price,
                                               signals.historical_prices))
           [] op = "_calculate_volatility_score" ->
                Some(CalculateVolatilityScore(signals.historical_prices,
                                              signals.current_price,
                                              signals.market_conditions))
           [] OTHER -> CalculateRiskScore(target_tx, signals.price_change))
    /\ pc' = "done"
    /\ UNCHANGED <<enVars, op, raised, sbVars, exVars, stVars>>

InitScore ==
    /\ op \in ScoreFunctions
    /\ pc = "score"
    /\ result = None
    /\ raised = FALSE
    /\ transactions = << >>
    /\ SBInit
    /\ tx = [unused |-> 0]
    /\ EXInit
    /\ strategy = "default"
    /\ target_tx = [isDict |-> FALSE, d |-> [unused |-> 0]]
    /\ engine = [unused |-> 0]
    /\ chain = [unused |-> 0]
    /\ STInit
    /\ ENInit
    /\ \E m \in ScoreMarkets, p \in ScorePrices :
         \E c \in (IF op = "_calculate_volatility_score" THEN {0} ELSE ScorePriceChanges),
            v \in (IF op = "_calculate_opportunity_score" THEN ScoreVolatilities ELSE {0}) :
           signals = ScoreArgs(c, v, m, p)

NextScore == SC_Score

SpecScore == InitScore /\ [][NextScore]_vars

----------------------------------------------------------------------------
(* build_transaction called on its own *)

BuildArgs(function_call, additional_params) ==
    [function_call |-> function_call, additional_params |-> additional_params]

\* the latest block with or without a base fee (0 included), and a safety
\* gate that raises or answers a Decimal, a number or 0
BuildChains ==
    {[BaseChain EXCEPT !.safetyGas = g, !.estimate = e] :
        g \in {None, GasAnswer("decimal", 40), GasAnswer("int", 40), GasAnswer("int", 0)},
        e \in {EstimateOk(50000), EstimateFails("reverted")}}
    \cup
    {[BaseChain EXCEPT !.eip1559 = TRUE, !.baseFee = b, !.priorityFee = 2, !.estimate = e] :
        b \in {0, 1, 30}, e \in {EstimateOk(50000), EstimateFails("reverted")}}

BuildInputs ==
    {BuildArgs(f, a) :
        f \in {FunctionCall("router", "swapExactTokensForTokens", <<1>>),
               FunctionCall("flashloan", "fn_RequestFlashLoan", <<2>>)},
        a \in {<< >>, [value |-> 5], [gasPrice |-> 7]}}

\* tx = await self.build_transaction(function_call, additional_params)
BT_Build ==
    /\ pc = "build"
    /\ \E outcome \in BuildOutcomesOn(chain) :
         /\ Built(outcome)
         /\ IF outcome = "ok"
              THEN LET t == BuiltTxWith(call_args.function_call, nextNonce, chain,
                                        call_args.additional_params)
                   IN /\ result' = Some(t)
                      /\ built' = Append(built, t)
                      /\ raised' = raised
              ELSE \* handle_error, then raise
                   /\ raised' = TRUE
                   /\ UNCHANGED <<result, built>>
    /\ pc' = "done"
    /\ UNCHANGED <<signedLog, call_args, tasks, op, sbVars, exVars, strategy, target_tx,
                   engine, chain, valid, decoded_tx, token_symbol, symbolCalls,
                   symbolAnswer, flashloan_tx, flashloan_amount, signals, score,
                   front_run_tx, back_run_tx, bundle, simulations>>

InitBuild ==
    /\ op = "build_transaction"
    /\ pc = "build"
    /\ result = None
    /\ raised = FALSE
    /\ tx = [unused |-> 0]
    /\ EXInit
    /\ transactions = << >>
    /\ SBInit
    /\ strategy = "default"
    /\ target_tx = [isDict |-> FALSE, d |-> [unused |-> 0]]
    /\ engine = [unused |-> 0]
    /\ chain \in BuildChains
    /\ signals = NoSignals
    /\ STInit
    /\ signedLog = {}
    /\ built = << >>
    /\ call_args \in BuildInputs
    /\ tasks = << >>

NextBuild == BT_Build

SpecBuild == InitBuild /\ [][NextBuild]_vars

----------------------------------------------------------------------------
(* cancel_transaction *)

\* configuration.DEFAULT_CANCEL_GAS_PRICE_GWEI
DEFAULT_CANCEL_GAS_PRICE_GWEI == 150

\* the nonces cancel_transaction is called with
MaxCancelNonce == 7

\* the replacement transaction, its gasPrice in units of 10^8 wei
CancelTx(nonce, chain_id) ==
    [to |-> "account.address", value |-> 0, gas |-> 21000,
     gasPrice |-> DEFAULT_CANCEL_GAS_PRICE_GWEI * 10, nonce |-> nonce,
     chainId |-> chain_id, from |-> "account.address"]

\* "chainId": await self.web3.eth.chain_id, evaluated before the try block
CT_ChainId ==
    /\ pc = "ct_chain"
    /\ \/ /\ tx' = CancelTx(call_args.nonce, chain.chainId)
          /\ pc' = "ct_sign"
          /\ raised' = raised
       \/ \* the read raises: nothing catches it
          /\ raised' = TRUE
          /\ pc' = "done"
          /\ tx' = tx
    /\ UNCHANGED <<enVars, op, result, sbVars, ex_attempt, ex_signs, ex_sends,
                   ex_accepted, ex_lastFailure, ex_lastSleep, stVars>>

\* signed_cancel_tx = await self.sign_transaction(cancel_tx)
CT_Sign ==
    /\ pc = "ct_sign"
    /\ ex_signs' = ex_signs + 1
    /\ \/ /\ signedLog' = signedLog \cup {sign_transaction(tx)}
          /\ pc' = "ct_send"
          /\ UNCHANGED <<result, ex_lastFailure>>
       \/ \* except Exception: return False
          /\ ex_lastFailure' = "sign_error"
          /\ result' = Some(FALSE)
          /\ pc' = "done"
          /\ signedLog' = signedLog
    /\ UNCHANGED <<built, call_args, tasks, op, raised, sbVars, tx, ex_attempt, ex_sends,
                   ex_accepted, ex_lastSleep, stVars>>

\* tx_hash = await self.web3.eth.send_raw_transaction(signed_cancel_tx)
CT_Send ==
    /\ pc = "ct_send"
    /\ ex_sends' = ex_sends + 1
    /\ \/ /\ ex_accepted' = ex_accepted + 1
          /\ result' = Some(TRUE)
          /\ ex_lastFailure' = ex_lastFailure
       \/ \* except Exception: return False
          /\ ex_lastFailure' = "send_error"
          /\ result' = Some(FALSE)
          /\ ex_accepted' = ex_accepted
    /\ pc' = "done"
    /\ UNCHANGED <<enVars, op, raised, sbVars, tx, ex_attempt, ex_signs,
                   ex_lastSleep, stVars>>

InitCancel ==
    /\ op = "cancel_transaction"
    /\ pc = "ct_chain"
    /\ result = None
    /\ raised = FALSE
    /\ tx = [unused |-> 0]
    /\ EXInit
    /\ transactions = << >>
    /\ SBInit
    /\ strategy = "default"
    /\ target_tx = [isDict |-> FALSE, d |-> [unused |-> 0]]
    /\ engine = [unused |-> 0]
    /\ chain \in {BaseChain, [BaseChain EXCEPT !.chainId = 5]}
    /\ signals = NoSignals
    /\ STInit
    /\ signedLog = {}
    /\ built = << >>
    /\ call_args \in {[nonce |-> n] : n \in 0..MaxCancelNonce}
    /\ tasks = << >>

NextCancel ==
    \/ CT_ChainId
    \/ CT_Sign
    \/ CT_Send

SpecCancel == InitCancel /\ [][NextCancel]_vars

----------------------------------------------------------------------------
(* A sequence of calls on one engine: build_transaction, then               *)
(* execute_transaction or send_bundle on what it returned, in any order and *)
(* any number of times.                                                     *)

\* the number of build_transaction calls in one sequence
MaxBuilds == 2

\* the variables of a call return to their values before a call
CallReset ==
    /\ result' = None
    /\ raised' = FALSE
    /\ ex_attempt' = 1
    /\ ex_signs' = 0
    /\ ex_sends' = 0
    /\ ex_accepted' = 0
    /\ ex_lastFailure' = "none"
    /\ ex_lastSleep' = 0
    /\ signed_txs' = << >>
    /\ signCalls' = 0
    /\ bundle_payload' = None
    /\ builder' = 1
    /\ attempt' = 1
    /\ successes' = << >>
    /\ posts' = [b \in MEV_BUILDERS |-> 0]
    /\ lastResp' = [b \in MEV_BUILDERS |-> "none"]
    /\ posted' = [b \in MEV_BUILDERS |-> {}]
    /\ lastSleep' = 0
    /\ refreshCount' = 0
    /\ sb_result' = None

\* tx = await self.build_transaction(function_call); the k-th call builds
\* a different function call
EN_Build ==
    /\ pc = "idle"
    /\ buildCalls < MaxBuilds
    /\ \E outcome \in BuildOutcomesOn(chain) :
         /\ Built(outcome)
         /\ built' = IF outcome = "ok"
                       THEN Append(built,
                                   BuiltTx(FunctionCall("router", "swapExactTokensForTokens",
                                                        <<buildCalls>>),
                                           nextNonce, chain))
                       ELSE built
    /\ UNCHANGED <<signedLog, call_args, tasks, op, pc, result, raised, sbVars, exVars,
                   strategy, target_tx, engine, chain, valid, decoded_tx, token_symbol,
                   symbolCalls, symbolAnswer, flashloan_tx, flashloan_amount, signals,
                   score, front_run_tx, back_run_tx, bundle, simulations>>

\* await self.execute_transaction(tx) on a built transaction
EN_Execute ==
    /\ pc = "idle"
    /\ \E i \in DOMAIN built : tx' = built[i]
    /\ op' = "execute_transaction"
    /\ pc' = "ex_attempt"
    /\ UNCHANGED <<enVars, result, raised, sbVars, ex_attempt, ex_signs, ex_sends,
                   ex_accepted, ex_lastFailure, ex_lastSleep, stVars>>

\* await self.send_bundle(transactions) on the built transactions
EN_SendBundle ==
    /\ pc = "idle"
    /\ built # << >>
    /\ transactions' = built
    /\ op' = "send_bundle"
    /\ pc' = "sb_sign"
    /\ UNCHANGED <<enVars, result, raised, signed_txs, signCalls, bundle_payload,
                   block_number, headAdvances, builder, attempt, successes, posts,
                   lastResp, posted, mev_builders, lastSleep, refreshCount, sb_result, exVars, stVars>>

\* the call returns to the caller
EN_Return ==
    /\ pc = "done"
    /\ pc' = "idle"
    /\ op' = "idle"
    /\ CallReset
    /\ tx' = [unused |-> 0]
    /\ transactions' = << >>
    /\ UNCHANGED <<enVars, block_number, headAdvances, mev_builders, stVars>>

InitEngine ==
    /\ op = "idle"
    /\ pc = "idle"
    /\ result = None
    /\ raised = FALSE
    /\ tx = [unused |-> 0]
    /\ EXInit
    /\ transactions = << >>
    /\ SBInit
    /\ strategy = "default"
    /\ target_tx = [isDict |-> FALSE, d |-> [unused |-> 0]]
    /\ engine = [unused |-> 0]
    /\ chain \in {BaseChain,
                 [BaseChain EXCEPT !.eip1559 = TRUE, !.baseFee = 30, !.priorityFee = 2]}
    /\ signals = NoSignals
    /\ STInit
    /\ ENInit

NextEngine ==
    \/ EN_Build
    \/ EN_Execute
    \/ EN_SendBundle
    \/ EN_Return
    \/ EX_Attempt
    \/ SB_Sign
    \/ SB_BlockNumber
    \/ SB_Post
    \/ SB_Finish
    \/ SB_Return

SpecEngine == InitEngine /\ [][NextEngine]_vars

----------------------------------------------------------------------------
(* One call of execute_transaction or of send_bundle, run to its end.  The  *)
(* event loop resumes a coroutine whenever the call it awaits has returned  *)
(* or raised, so every step of the call that is enabled is eventually       *)
(* taken; the arrival of a block is not a step of the call.                 *)

InitCalls == InitExec \/ InitBundle

NextCalls == NextExec \/ NextBundle

CallsFairness ==
    /\ WF_vars(EX_Attempt)
    /\ WF_vars(SB_Sign)
    /\ WF_vars(SB_BlockNumber)
    /\ WF_vars(SB_Post)
    /\ WF_vars(SB_Finish)
    /\ WF_vars(SB_Return)

SpecCalls == InitCalls /\ [][NextCalls]_vars /\ CallsFairness

----------------------------------------------------------------------------
(* decode_transaction_input called on its own *)

DecodeArgs(input_data, contract_address) ==
    [input_data |-> input_data, contract_address |-> contract_address]

\* Calldata of every selector under every argument shape, whole, cut inside
\* the selector and cut after it, and the bare prefix; contract addresses in
\* and not in checksum case, and a malformed one
DecodeInputs ==
    LET selectors == {SelSwap, SelSwapOut, SelTransfer, SelOrphan, SelUnknown}
        arguments == {[shape |-> "swap", args |-> SwapArgs(<<TokenA, TokenB>>)],
                      [shape |-> "swap", args |-> SwapArgs(<<TokenA>>)],
                      [shape |-> "transfer", args |-> TransferArgs],
                      [shape |-> "claim", args |-> [unused |-> 0]]}
        data == {Calldata(sel, a.shape, a.args) : sel \in selectors, a \in arguments}
                  \cup {<<"0x">> \o sel : sel \in selectors}
                  \cup {<<"0x">> \o SubSeq(sel, 1, 2) : sel \in selectors}
                  \cup {<<"0x">>, << >>}
    IN {DecodeArgs(d, a) :
          d \in data,
          a \in {Addr("uniswap", "checksum"), Addr("sushiswap", "lower"),
                 Addr("other", "invalid")}}

\* decoded = await self.decode_transaction_input(input_data, contract_address);
\* the outer except clause returns None as well
DC_Decode ==
    /\ pc = "decode"
    /\ result' = Some(decode_transaction_input(call_args.input_data,
                                               call_args.contract_address))
    /\ pc' = "done"
    /\ UNCHANGED <<enVars, op, raised, sbVars, exVars, stVars>>

InitDecode ==
    /\ op = "decode_transaction_input"
    /\ pc = "decode"
    /\ result = None
    /\ raised = FALSE
    /\ transactions = << >>
    /\ SBInit
    /\ tx = [unused |-> 0]
    /\ EXInit
    /\ STIdle
    /\ STInit
    /\ signedLog = {}
    /\ built = << >>
    /\ call_args \in DecodeInputs
    /\ tasks = << >>

NextDecode == DC_Decode

SpecDecode == InitDecode /\ [][NextDecode]_vars

----------------------------------------------------------------------------
(* Two strategy invocations on one engine.  Every await of a strategy is a  *)
(* suspension point: the event loop may run the other invocation between    *)
(* any two of them.  The locals of an invocation are its own; the nonce     *)
(* service, the chain client and the counters are the engine's.             *)

\* the invocations running on the engine
Invocations == {1, 2}

\* the targets the two invocations are handed
ConcurrentTargets ==
    { BaseTarget,
      Target(TargetDict(SwapData(<<TokenB, TokenA>>), Addr("sushiswap", "checksum"), 2, 3)) }

\* the locals of an invocation of the base strategy b on the target t,
\* before its first statement
Invocation(b, t) ==
    [base |-> b, target |-> t, pc |-> "validate", decoded |-> None,
     flashloan_tx |-> None, front_run_tx |-> None, back_run_tx |-> None,
     nonces |-> << >>, bundle |-> << >>, submitted |-> FALSE, result |-> None]

\* what an action of one invocation leaves alone, the nonce service and
\* the build counters apart
taskFrame == <<op, pc, result, raised, sbVars, exVars, strategy, target_tx, engine,
               chain, valid, decoded_tx, token_symbol, symbolCalls, symbolAnswer,
               flashloan_tx, flashloan_amount, signals, score, front_run_tx,
               back_run_tx, bundle, simulations, signedLog, built, call_args>>

\* valid, decoded_tx, token_symbol = await self._validate_transaction(...)
T_Validate(t) ==
    /\ tasks[t].pc = "validate"
    /\ \E sym \in SymbolOutcomes :
         LET v == ValidateTransaction(tasks[t].target, 0, sym)
         IN tasks' = [tasks EXCEPT
                        ![t].decoded = v.decoded_tx,
                        ![t].pc = IF v.valid THEN AfterValidation(tasks[t].base) ELSE "done",
                        ![t].result = IF v.valid THEN None ELSE Some(FALSE)]
    /\ UNCHANGED <<taskFrame, nextNonce, nonceCalls, buildCalls>>

\* should_execute = await self._check_sandwich_strategy(...)
T_Gate(t) ==
    /\ tasks[t].pc = "gate"
    /\ \E sig \in GateSignals(strategy) :
         tasks' = IF CheckSandwichStrategy(strategy, sig) = "pass"
                    THEN [tasks EXCEPT ![t].pc = "prep_flashloan"]
                    ELSE [tasks EXCEPT ![t].pc = "done", ![t].result = Some(FALSE)]
    /\ UNCHANGED <<taskFrame, nextNonce, nonceCalls, buildCalls>>

\* the call the preparation an invocation stands at builds (None: it
\* returns None without building)
PreparationCall(k) ==
    CASE k.pc = "prep_flashloan" ->
           LET amount == calculate_flashloan_amount(k.target)
           IN IF AmountNotPositive(amount) THEN None
              ELSE Some(FlashloanCall(to_checksum_address(k.decoded[1].params.path[1]),
                                      amount))
      [] k.pc = "prep_front" -> FrontRunCall(k.target, engine)
      [] OTHER -> BackRunCall(k.target, k.decoded[1], engine)

\* the statement after a preparation
AfterPreparation(k) ==
    CASE k.pc = "prep_flashloan" -> "prep_front"
      [] k.pc = "prep_front" -> IF k.base = "front_run" THEN "bundle" ELSE "prep_back"
      [] OTHER -> "bundle"

\* the locals of an invocation after the preparation it stands at returned
\* prepared
AfterPrepared(k, prepared) ==
    [[k EXCEPT !.pc = AfterPreparation(k)] EXCEPT
       !.flashloan_tx = IF k.pc = "prep_flashloan" THEN prepared ELSE @,
       !.front_run_tx = IF k.pc = "prep_front" THEN prepared ELSE @,
       !.back_run_tx = IF k.pc = "prep_back" THEN prepared ELSE @,
       !.decoded = IF k.pc = "prep_back" /\ PathValid(k.decoded[1].params)
                     THEN Some([k.decoded[1] EXCEPT
                                  !.params = BackRunParams(k.decoded[1].params)])
                     ELSE @]

\* one of flashloan_tx = await self._prepare_flashloan(...), front_tx =
\* await self._prepare_front_run_transaction(...), back_tx = await
\* self._prepare_back_run_transaction(...): the build inside it asks the
\* engine's nonce service
T_Prepare(t) ==
    /\ tasks[t].pc \in {"prep_flashloan", "prep_front", "prep_back"}
    /\ LET k == tasks[t]
           call == PreparationCall(k)
       IN IF k.pc = "prep_flashloan"
             /\ ~AmountNotPositive(calculate_flashloan_amount(k.target))
             /\ ChecksumRaises(k.decoded[1].params.path[1])
            THEN \* the exception reaches the strategy's except clause
                 /\ tasks' = [tasks EXCEPT ![t].pc = "done", ![t].result = Some(FALSE)]
                 /\ NotBuilt
          ELSE IF IsNone(call)
            THEN /\ tasks' = [tasks EXCEPT ![t] = AfterPrepared(k, None)]
                 /\ NotBuilt
          ELSE \E outcome \in BuildOutcomesOn(chain) :
                 /\ tasks' = [tasks EXCEPT ![t] =
                      [AfterPrepared(k, build_transaction(call[1], nextNonce, chain, outcome))
                         EXCEPT !.nonces = IF TakesNonce(outcome)
                                             THEN Append(@, nextNonce) ELSE @]]
                 /\ Built(outcome)
    /\ UNCHANGED taskFrame

\* if not all([...]): return False; otherwise the members go to
\* _validate_and_send_bundle
T_Bundle(t) ==
    /\ tasks[t].pc = "bundle"
    /\ LET k == tasks[t]
           members == BundleMembers(k.base, k.flashloan_tx, k.front_run_tx, k.back_run_tx)
       IN tasks' = IF AllPrepared(members)
                     THEN [tasks EXCEPT ![t].bundle = [i \in 1..Len(members) |-> members[i][1]],
                                        ![t].pc = "send"]
                     ELSE [tasks EXCEPT ![t].pc = "done", ![t].result = Some(FALSE)]
    /\ UNCHANGED <<taskFrame, nextNonce, nonceCalls, buildCalls>>

\* _validate_and_send_bundle: the simulations, then send_bundle on the
\* members when all of them passed; the strategy returns what it returned
T_Send(t) ==
    /\ tasks[t].pc = "send"
    /\ \E sims \in [1..Len(tasks[t].bundle) -> {simulate_transaction(o) : o \in SimOutcomes}],
          accepted \in BOOLEAN :
         tasks' = IF SimulationsPassed(sims)
                    THEN [tasks EXCEPT ![t].submitted = TRUE, ![t].pc = "done",
                                       ![t].result = Some(accepted)]
                    ELSE [tasks EXCEPT ![t].pc = "done", ![t].result = Some(FALSE)]
    /\ UNCHANGED <<taskFrame, nextNonce, nonceCalls, buildCalls>>

InitConcurrent ==
    /\ op = "concurrent"
    /\ pc = "tasks"
    /\ result = None
    /\ raised = FALSE
    /\ transactions = << >>
    /\ SBInit
    /\ tx = [unused |-> 0]
    /\ EXInit
    /\ strategy = "default"
    /\ target_tx = [isDict |-> FALSE, d |-> [unused |-> 0]]
    /\ engine = BaseEngine
    /\ chain = BaseChain
    /\ signals = NoSignals
    /\ STInit
    /\ signedLog = {}
    /\ built = << >>
    /\ call_args = << >>
    /\ tasks \in [Invocations -> {Invocation(b, t) : b \in BaseStrategies,
                                                     t \in ConcurrentTargets}]

NextConcurrent ==
    \E t \in Invocations :
       \/ T_Validate(t)
       \/ T_Gate(t)
       \/ T_Prepare(t)
       \/ T_Bundle(t)
       \/ T_Send(t)

SpecConcurrent == InitConcurrent /\ [][NextConcurrent]_vars

----------------------------------------------------------------------------
(* handle_eth_transaction *)

\* configuration.ETH_TX_GAS_PRICE_MULTIPLIER, in tenths
ETH_TX_GAS_PRICE_MULTIPLIER == 12

\* int(original_gas_price * self.configuration.ETH_TX_GAS_PRICE_MULTIPLIER),
\* for a positive price
EthGasPrice(original_gas_price) ==
    (original_gas_price * ETH_TX_GAS_PRICE_MULTIPLIER) \div 10

\* tx_details as the dict literal leaves it: no gasPrice yet
EthTxDetails(t, eth_value, n, chain_id) ==
    [to |-> Get(t.d, "to", ""), value |-> eth_value, gas |-> 21000, nonce |-> n,
     chainId |-> chain_id, from |-> "account.address"]

\* How building tx_details can end.
\*   ok           the dict is built
\*   nonce_error  noncecore.get_nonce raised
\*   chain_error  get_nonce returned and reading web3.eth.chain_id raised
EthDetailsOutcomes == {"ok", "nonce_error", "chain_error"}

\* the ETH transfers the handler is given
EthTargets ==
    { Target([to |-> "recipient", value |-> v, gasPrice |-> g])
        : v \in {0 - 1, 0, 2}, g \in {0 - 5, 0, 7, 50, 84, 90} }
    \cup { Target([to |-> "recipient", value |-> v]) : v \in {0, 2} }
    \cup { Target([to |-> "recipient", gasPrice |-> 50]),
           Target([value |-> 2, gasPrice |-> 50]) }

\* eth_value = target_tx.get("value", 0); if eth_value <= 0: return False
HE_Value ==
    /\ op = "handle_eth_transaction"
    /\ pc = "he_value"
    /\ IF Get(target_tx.d, "value", 0) <= 0
         THEN /\ pc' = "returned"
              /\ result' = Some(FALSE)
         ELSE /\ pc' = "he_details"
              /\ result' = result
    /\ UNCHANGED <<enVars, op, raised, sbVars, exVars, stVars>>

\* tx_details = {...} with its await on get_nonce, the gas price check and
\* the assignment of the multiplied gas price; execute_transaction is
\* entered on the result.  An exception ends in the except clause.
HE_Details ==
    /\ op = "handle_eth_transaction"
    /\ pc = "he_details"
    /\ \E outcome \in EthDetailsOutcomes :
         LET original_gas_price == Get(target_tx.d, "gasPrice", 0)
             tx_details == EthTxDetails(target_tx, Get(target_tx.d, "value", 0),
                                        nextNonce, chain.chainId)
         IN /\ nonceCalls' = nonceCalls + 1
            /\ nextNonce' = nextNonce + (IF outcome = "nonce_error" THEN 0 ELSE 1)
            /\ IF outcome # "ok" \/ original_gas_price <= 0
                 THEN /\ pc' = "returned"
                      /\ result' = Some(FALSE)
                      /\ tx' = tx
                 ELSE /\ tx' = Update(tx_details,
                                      [gasPrice |-> EthGasPrice(original_gas_price)])
                      /\ pc' = IF ExecLoopEnters(tx') THEN "ex_attempt" ELSE "done"
                      /\ result' = IF ExecLoopEnters(tx') THEN result ELSE Some(None)
    /\ UNCHANGED <<enVars, op, raised, sbVars, ex_attempt, ex_signs, ex_sends,
                   ex_accepted, ex_lastFailure, ex_lastSleep, strategy, target_tx, engine,
                   chain, valid, decoded_tx, token_symbol, symbolCalls, symbolAnswer,
                   flashloan_tx, flashloan_amount, signals, score, front_run_tx,
                   back_run_tx, buildCalls, bundle, simulations>>

\* if tx_hash_executed: return True; otherwise the function falls through
\* to return False
HE_Return ==
    /\ op = "handle_eth_transaction"
    /\ pc = "done"
    /\ result' = Some(result # Some(None))
    /\ pc' = "returned"
    /\ UNCHANGED <<enVars, op, raised, sbVars, exVars, stVars>>

InitEth ==
    /\ op = "handle_eth_transaction"
    /\ pc = "he_value"
    /\ result = None
    /\ raised = FALSE
    /\ transactions = << >>
    /\ SBInit
    /\ tx = [unused |-> 0]
    /\ EXInit
    /\ strategy = "default"
    /\ target_tx \in EthTargets
    /\ engine = [unused |-> 0]
    /\ chain \in {BaseChain, [BaseChain EXCEPT !.chainId = 5]}
    /\ signals = NoSignals
    /\ STInit
    /\ ENInit

NextEth ==
    \/ HE_Value
    \/ HE_Details
    \/ EX_Attempt
    \/ HE_Return

SpecEth == InitEth /\ [][NextEth]_vars

----------------------------------------------------------------------------
(* Properties of send_bundle (SpecBundle) *)

NoRelayContacted == \A b \in MEV_BUILDERS : posts[b] = 0

SomeRelayAccepted == \E b \in MEV_BUILDERS : lastResp[b] = "accepted"

\* C2: send_bundle returns True if and only if at least one relay answered
\* a post with a 2xx response whose JSON body has no error field; when it
\* returns True refresh_nonce was invoked exactly once in the call, and when
\* it returns False refresh_nonce was not invoked at all.
C2_TrueIffSomeRelayAccepted ==
    /\ refreshCount \in {0, 1}
    /\ pc \notin {"sb_return", "done"} => refreshCount = 0
    /\ (op = "send_bundle" /\ pc = "done") =>
          /\ result \in {Some(TRUE), Some(FALSE)}
          /\ (result = Some(TRUE)) <=> SomeRelayAccepted
          /\ result = Some(TRUE) => refreshCount = 1
          /\ result = Some(FALSE) => refreshCount = 0

\* relay 1 failed with a transport error on every attempt, relay 2 accepted
\* on its first attempt: True, one refresh
C2_Witness ==
    /\ op = "send_bundle" /\ pc = "done"
    /\ lastResp[1] = "conn_error" /\ posts[1] = MEMPOOL_MAX_RETRIES
    /\ lastResp[2] = "accepted" /\ posts[2] = 1
    /\ result = Some(TRUE)
    /\ refreshCount = 1

\* what C3 says of one post to relay b that was attempt number k and came
\* back with r
C3_PostStep(b, k, r) ==
    /\ posts'[b] = k
    /\ k <= MEMPOOL_MAX_RETRIES
    /\ \A o \in MEV_BUILDERS \ {b} : posts'[o] = posts[o]
    /\ (r \in {"http_error", "conn_error", "timeout"} /\ k < MEMPOOL_MAX_RETRIES) =>
          \* retried, after a wait of MEMPOOL_RETRY_DELAY * k
          /\ pc' = "sb_post" /\ builder' = b /\ attempt' = k + 1
          /\ lastSleep' = MEMPOOL_RETRY_DELAY * k
    /\ (r \in {"http_error", "conn_error", "timeout"} /\ k = MEMPOOL_MAX_RETRIES) =>
          \* the budget of this relay is used up
          /\ builder' = b + 1 /\ attempt' = 1
          /\ successes' = successes
    /\ r = "app_error" =>
          \* no retry, no wait, and the following relay is tried
          /\ builder' = b + 1 /\ attempt' = 1 /\ lastSleep' = 0
          /\ successes' = successes
    /\ r = "accepted" =>
          /\ builder' = b + 1 /\ attempt' = 1 /\ lastSleep' = 0
          /\ successes' = Append(successes, b)
    /\ (builder' = b + 1 /\ b + 1 \in MEV_BUILDERS) => pc' = "sb_post"

\* C3: for each relay separately, a transport failure (HTTP error status,
\* connection error, timeout) is retried until the relay has been posted to
\* MEMPOOL_MAX_RETRIES times, waiting MEMPOOL_RETRY_DELAY * attempt after
\* failed attempt number attempt; an application-level error response ends
\* the attempts for that relay at once and the following relays are still
\* tried; the first accepted response ends the attempts for that relay.
C3_PerRelayRetry ==
    [][ (pc = "sb_post" /\ posts' # posts) =>
           C3_PostStep(builder, attempt, lastResp'[builder]) ]_vars

\* relay 1 has just failed its second attempt with a timeout and relay 2
\* was not yet tried
C3_Witness ==
    /\ pc = "sb_post" /\ builder = 1 /\ attempt = 3
    /\ posts[1] = 2 /\ lastResp[1] = "timeout"
    /\ lastSleep = MEMPOOL_RETRY_DELAY * 2

----------------------------------------------------------------------------
(* Properties of execute_transaction (SpecExec) *)

\* C4: execute_transaction stops retrying and returns None the first time
\* the gas price is found above MAX_GAS_PRICE_GWEI, even if attempts
\* remain: no further signing or broadcast happens in that call.
C4_CeilingStopsRetries ==
    (op = "execute_transaction" /\ ExecGasPrice(tx) > MAX_GAS_PRICE_GWEI) =>
       /\ ex_signs <= 1 /\ ex_sends <= 1
       /\ (ex_signs = 1 /\ ex_accepted = 0) =>
             pc = "done" /\ result = Some(None)

\* a first attempt failed with the price above the ceiling and attempts
\* remained
C4_Witness ==
    /\ op = "execute_transaction" /\ pc = "done"
    /\ ExecGasPrice(tx) > MAX_GAS_PRICE_GWEI
    /\ ex_signs = 1 /\ ex_signs < MEMPOOL_MAX_RETRIES
    /\ ex_lastFailure = "send_error"
    /\ result = Some(None)

\* C5: execute_transaction makes at most MEMPOOL_MAX_RETRIES
\* sign-then-broadcast attempts, returns the hash of the first attempt that
\* succeeds without a further attempt, and returns None, never raising,
\* when every attempt fails, in signing or in broadcasting.
C5_BoundedAttempts ==
    op = "execute_transaction" =>
       /\ ex_signs <= MEMPOOL_MAX_RETRIES
       /\ ex_sends <= ex_signs
       /\ ex_accepted <= 1
       /\ ~raised
       /\ ex_accepted = 1 =>
             /\ pc = "done"
             /\ ex_sends = ex_signs
             /\ result = Some(Some(Hex(TxHash(sign_transaction(tx)))))
       /\ (pc = "done" /\ ex_accepted = 0) => result = Some(None)
       /\ pc # "done" => result = None

\* every attempt failed in broadcasting
C5_Witness ==
    /\ op = "execute_transaction" /\ pc = "done"
    /\ ex_signs = MEMPOOL_MAX_RETRIES /\ ex_sends = MEMPOOL_MAX_RETRIES
    /\ ex_accepted = 0
    /\ result = Some(None)

----------------------------------------------------------------------------
(* Properties of the strategies (Spec) *)

InSendBundle == pc \in {"sb_sign", "sb_block", "sb_post", "sb_finish", "sb_return"}

NothingSent ==
    /\ ~InSendBundle
    /\ signCalls = 0
    /\ NoRelayContacted
    /\ refreshCount = 0

\* C1: in every run of front_run, back_run and execute_sandwich_attack,
\* send_bundle (and so any signing or relay post) is reached only after
\* simulate_transaction returned true for every member of that same bundle;
\* all member simulations are started together and joined, and if any of
\* them returns false or raises, in any completion order, no member is
\* signed and no relay is contacted.
C1_SendOnlyAfterAllSimulated ==
    op \in EntryPoints =>
       /\ ~NothingSent =>
             /\ Len(bundle) > 0
             /\ transactions = bundle
             /\ Len(simulations) = Len(bundle)
             /\ \A i \in 1..Len(simulations) : simulations[i] = "true"
       /\ pc = "simulate" =>
             /\ Len(simulations) = Len(bundle)
             /\ Len(bundle) > 0
       /\ (pc # "simulate" /\ simulations # << >>) =>
             \A i \in 1..Len(simulations) : simulations[i] # "running"
       /\ (\E i \in 1..Len(simulations) : simulations[i] = "false") =>
             /\ NothingSent
             /\ pc = "done" => result = Some(FALSE)

\* a sandwich whose second member failed its simulation after the third
\* passed was given up
C1_Witness ==
    /\ op = "execute_sandwich_attack" /\ pc = "done"
    /\ simulations = <<"true", "false", "true">>
    /\ result = Some(FALSE)

\* C6: execute_sandwich_attack fails closed: if the preparation of any one
\* of the flashloan, front-run or back-run transaction returns no
\* transaction, the call returns False and nothing is simulated, signed or
\* submitted; a bundle of fewer than three members is never sent.
C6_SandwichFailsClosed ==
    (op \in EntryPoints /\ BaseOf(op) = "execute_sandwich_attack") =>
       /\ (simulations # << >> \/ ~NothingSent) =>
             /\ ~IsNone(flashloan_tx) /\ ~IsNone(front_run_tx) /\ ~IsNone(back_run_tx)
             /\ bundle = <<flashloan_tx[1], front_run_tx[1], back_run_tx[1]>>
       /\ ~NothingSent => Len(transactions) = 3
       /\ (pc = "done" /\ ~raised
             /\ (IsNone(flashloan_tx) \/ IsNone(front_run_tx) \/ IsNone(back_run_tx))) =>
             /\ result = Some(FALSE)
             /\ simulations = << >>
             /\ NothingSent

\* the flashloan and the front-run were built and the back-run was not
C6_Witness ==
    /\ op = "execute_sandwich_attack" /\ pc = "done"
    /\ ~IsNone(flashloan_tx) /\ ~IsNone(front_run_tx) /\ IsNone(back_run_tx)
    /\ buildCalls = 3
    /\ result = Some(FALSE)

\* C7: for a target that is not a dict or lacks any of input, to, value,
\* gasPrice, _validate_transaction returns (False, None, None), and every
\* entry point that validates it returns False without requesting a nonce
\* and without building, simulating or submitting any transaction.
C7_MalformedTargetRejected ==
    (op \in BaseStrategies \cup ValidatingVariants
       /\ (~target_tx.isDict
             \/ ~({"input", "to", "value", "gasPrice"} \subseteq DOMAIN target_tx.d))) =>
       /\ nonceCalls = 0 /\ buildCalls = 0 /\ symbolCalls = 0
       /\ simulations = << >>
       /\ NothingSent
       /\ ~raised
       /\ pc \in {"validate", "v_validate", "done"}
       /\ pc = "done" =>
             /\ valid = Some(FALSE) /\ decoded_tx = None /\ token_symbol = None
             /\ result = Some(FALSE)

\* a variant was given a dict without its gasPrice
C7_Witness ==
    /\ op = "price_dip_back_run" /\ pc = "done"
    /\ target_tx.isDict
    /\ DOMAIN target_tx.d = {"input", "to", "value", "profit"}
    /\ valid = Some(FALSE)
    /\ result = Some(FALSE)

\* C8: _validate_transaction returns (True, decoded, symbol) exactly when,
\* checked in this order, the four required fields are present, the
\* calldata decodes to a result with params, params.path is a list of
\* length >= 2, the price service resolves a symbol for path[0], and
\* value >= min_value; in every other case, an exception of the decoder,
\* the address normalization or the price service included, it returns
\* (False, None, None) and does not raise, and a failed check stops the
\* later ones: the price service is not asked when the path is invalid.
C8_ValidExactlyWhen ==
    (op \in BaseStrategies \cup ValidatingVariants /\ valid # None) =>
       LET t == target_tx
           fields == t.isDict /\ {"input", "to", "value", "gasPrice"} \subseteq DOMAIN t.d
           decoded == IF fields /\ t.d.to.form # "invalid"
                        THEN decode_transaction_input(t.d.input, to_checksum_address(t.d.to))
                        ELSE None
           hasParams == ~IsNone(decoded) /\ "params" \in DOMAIN decoded[1]
           pathOk == /\ hasParams
                     /\ "path" \in DOMAIN decoded[1].params
                     /\ Len(decoded[1].params.path) >= 2
           symOk == pathOk /\ symbolAnswer \notin {"unasked", "raise", "None", ""}
           valueOk == symOk /\ t.d.value >= MinValueOf(op)
       IN /\ valid = Some(valueOk)
          /\ valueOk => token_symbol = Some(symbolAnswer)
          /\ (valueOk /\ pc \in {"v_decide", "validate", "gate", "prep_flashloan",
                                "prep_front", "prep_back"}) => decoded_tx = decoded
          /\ ~valueOk => (decoded_tx = None /\ token_symbol = None)
          /\ ~pathOk => (symbolCalls = 0 /\ symbolAnswer = "unasked")
          /\ pathOk => symbolCalls >= 1
          /\ op \in BaseStrategies => ~raised

\* a target passed every check
C8_Witness ==
    /\ op = "front_run" /\ pc = "prep_flashloan"
    /\ valid = Some(TRUE)
    /\ token_symbol = Some("XYZ")
    /\ ~IsNone(decoded_tx)

\* C9: for a validated target with decoded path p of length >= 2 sent to a
\* recognized router, the call built by back_run carries reverse(p): same
\* length, element i equal to p[len - 1 - i]; reversing it again gives p,
\* and every other decoded parameter is passed on unchanged.
C9_BackRunReversesPath ==
    (op \in EntryPoints /\ ~IsNone(back_run_tx)) =>
       LET decoded == decode_transaction_input(target_tx.d.input,
                                               to_checksum_address(target_tx.d.to))[1]
           p == decoded.params.path
           args == back_run_tx[1].data.args
           q == args.path
       IN /\ Len(p) >= 2
          /\ Len(q) = Len(p)
          /\ \A i \in 1..Len(p) : q[i] = p[Len(p) + 1 - i]
          /\ [i \in 1..Len(q) |-> q[Len(q) + 1 - i]] = p
          /\ DOMAIN args = DOMAIN decoded.params
          /\ \A k \in DOMAIN args \ {"path"} : args[k] = decoded.params[k]
          /\ back_run_tx[1].data.fn = decoded.function_name

\* back_run built its call for a path of three different tokens
C9_Witness ==
    /\ op = "back_run"
    /\ ~IsNone(back_run_tx)
    /\ back_run_tx[1].data.args.path = <<TokenC, TokenB, TokenA>>

----------------------------------------------------------------------------
(* Properties of estimate_gas_smart (SpecGas) *)

\* C10: estimate_gas_smart never raises: for every failure of the chain
\* client's estimate (execution reverted, transaction not found, any other
\* error) it returns exactly DEFAULT_GAS_LIMIT (100000), and otherwise it
\* returns the client's estimate unchanged.
C10_EstimateNeverRaises ==
    op = "estimate_gas_smart" =>
       /\ ~raised
       /\ pc = "done" =>
             /\ chain.estimate.kind = "ok" => result = Some(chain.estimate.gas)
             /\ chain.estimate.kind # "ok" =>
                   (result = Some(100000) /\ result = Some(DEFAULT_GAS_LIMIT))

\* the client reported "execution reverted"
C10_Witness ==
    /\ op = "estimate_gas_smart" /\ pc = "done"
    /\ chain.estimate.kind = "reverted"
    /\ result = Some(100000)

\* C11: calculate_flashloan_amount returns floor(profit * percentage * 10^18)
\* when the target's estimated profit is > 0 (10^18 for profit 2.0 and
\* percentage 0.5) and 0 when the profit is <= 0 or absent; whenever the
\* amount is 0, no flashloan transaction is prepared and no nonce is
\* requested for it.
C11_FlashloanAmount ==
    (op \in EntryPoints /\ flashloan_amount # None) =>
       LET a == flashloan_amount[1]
           has == "profit" \in DOMAIN target_tx.d
           m == IF has THEN target_tx.d.profit.milli ELSE 0
           s == IF has THEN target_tx.d.profit.sub ELSE 0
           pct == FLASHLOAN_BACK_RUN_PROFIT_PERCENTAGE
           positive == m > 0 \/ (m = 0 /\ s > 0)
       IN /\ positive =>
                /\ a.e13 = m * pct
                /\ a.wei * (100 * 100) <= s * pct
                /\ s * pct < (a.wei + 1) * (100 * 100)
          /\ ~positive => a = [e13 |-> 0, wei |-> 0]
          /\ (m = 2000 /\ s = 0 /\ pct = 50) => a = [e13 |-> 100000, wei |-> 0]
          /\ a = [e13 |-> 0, wei |-> 0] =>
                /\ flashloan_tx = None
                /\ pc = "prep_front" => (nonceCalls = 0 /\ buildCalls = 0)

\* a profit of 3.5 wei gave an amount of 1 wei (1.75 wei at 50 percent) and
\* the flashloan was built
C11_Witness ==
    /\ op = "front_run"
    /\ "profit" \in DOMAIN target_tx.d
    /\ target_tx.d.profit = [milli |-> 0, sub |-> 350]
    /\ flashloan_amount = Some([e13 |-> 0, wei |-> 1])
    /\ ~IsNone(flashloan_tx)

----------------------------------------------------------------------------
(* Properties of the score functions (SpecScore) *)

\* the bands of the price-change term: <<threshold, points>>, the threshold
\* in hundredths of a percent
PriceChangeBands == {<<500, 40>>, <<300, 30>>, <<100, 20>>, <<50, 10>>}

\* C12: with all other inputs fixed the opportunity score never decreases
\* when the predicted price change grows, and its price-change term is the
\* points of the highest band whose threshold the change is strictly above
\* (40 above 5%, 30 above 3%, 20 above 1%, 10 above 0.5%), 0 when it is
\* above none: a change of exactly a threshold does not earn that band.
C12_PriceChangeBands ==
    (op = "_calculate_opportunity_score" /\ pc = "done") =>
       LET c == signals.price_change
           total == result[1][1]
           others == PriceLevelTerm(signals.current_price, signals.historical_prices)
                       + VolatilityTerm(signals.volatility)
                       + MarketTerm(signals.market_conditions)
                       + TrendTerm(signals.historical_prices)
           earned == {b[2] : b \in {x \in PriceChangeBands : c > x[1]}} \cup {0}
       IN /\ total - others \in earned
          /\ \A e \in earned : e <= total - others
          /\ \A c2 \in ScorePriceChanges :
               c2 <= c => CalculateOpportunityScore(c2, signals.volatility,
                                                    signals.market_conditions,
                                                    signals.current_price,
                                                    signals.historical_prices) <= total

\* a change of exactly 5.0% with nothing else scoring: 30 points
C12_Witness ==
    /\ op = "_calculate_opportunity_score"
    /\ pc = "done"
    /\ signals.price_change = 500
    /\ signals.volatility = 80
    /\ signals.historical_prices = << >>
    /\ result = Some(Some(30))

\* C20: for every input the opportunity score and the volatility score are
\* in [0, 100] and the risk score is a number in [0, 1] (counted in
\* hundredths here).
C20_ScoresInRange ==
    (op \in ScoreFunctions /\ pc = "done") =>
       /\ result[1] # None
       /\ result[1][1] >= 0
       /\ result[1][1] <= 100

----------------------------------------------------------------------------
(* Properties of the strategy variants (Spec) *)

\* C13: every public strategy entry point, on every target and every
\* collaborator outcome, ends by returning a boolean: no exception leaves
\* the entry point.
C13_NoExceptionEscapes ==
    op \in EntryPoints =>
       /\ ~raised
       /\ pc = "done" => result \in {Some(TRUE), Some(FALSE)}

\* every call of the gather has answered and one of them raised or
\* answered None
SomeSignalMissing ==
    /\ \A n \in DOMAIN signals : signals[n].kind # "running"
    /\ \E n \in DOMAIN signals : signals[n].kind \in {"raise", "none"}

\* C14: in predictive_front_run and volatility_front_run, when any one of
\* the gathered signal calls raised or returned None, in whatever order
\* they completed, no score is computed, front_run is not invoked and the
\* strategy returns False.
C14_MissingSignalReturnsFalse ==
    (op \in GatheringVariants /\ SomeSignalMissing) =>
       /\ score = None
       /\ pc \in {"v_signals", "done"}
       /\ pc = "done" => (result = Some(FALSE) /\ ~raised)

----------------------------------------------------------------------------
(* Properties of build_transaction (SpecBuild) *)

\* build_transaction returned a transaction
BuildReturned == op = "build_transaction" /\ pc = "done" /\ result # None

\* C15: every transaction build_transaction produces carries a strictly
\* positive gas price: gasPrice > 0 on the legacy path and maxFeePerGas > 0
\* on the fee-market path, whatever the safety gate, the fallback default
\* or the latest block's base fee supply.
C15_GasPricePositive ==
    BuildReturned =>
       LET t == result[1]
       IN IF chain.eip1559
            THEN "maxFeePerGas" \in DOMAIN t /\ t.maxFeePerGas > 0
            ELSE "gasPrice" \in DOMAIN t /\ t.gasPrice > 0

\* C18 as stated: build_transaction sets maxFeePerGas = 2 * baseFeePerGas and
\* maxPriorityFeePerGas = the suggested priority fee, and no gasPrice,
\* whenever the latest block has baseFeePerGas; otherwise it sets gasPrice
\* from the dynamic gas price and neither fee-market field; never a mix.
C18_FeeModeNeverMixed ==
    BuildReturned =>
       LET t == result[1]
       IN IF chain.eip1559
            THEN /\ {"maxFeePerGas", "maxPriorityFeePerGas"} \subseteq DOMAIN t
                 /\ t.maxFeePerGas = 2 * chain.baseFee
                 /\ t.maxPriorityFeePerGas = chain.priorityFee
                 /\ "gasPrice" \notin DOMAIN t
            ELSE /\ "gasPrice" \in DOMAIN t
                 /\ t.gasPrice = DynamicGasPrice(chain.safetyGas)
                 /\ {"maxFeePerGas", "maxPriorityFeePerGas"} \cap DOMAIN t = {}

\* C18 (amended): the fee fields build_transaction itself sets are
\* maxFeePerGas = 2 * baseFeePerGas and maxPriorityFeePerGas = the suggested
\* priority fee when the latest block has baseFeePerGas, and gasPrice from
\* the dynamic gas price otherwise; a fee field of the returned transaction
\* that is not one of these is there only because the caller's
\* additional_params carry it, with the caller's value.
C18_FeeModeUnlessOverridden ==
    BuildReturned =>
       LET t == result[1]
           additional_params == call_args.additional_params
           own == IF chain.eip1559
                    THEN [maxFeePerGas |-> 2 * chain.baseFee,
                          maxPriorityFeePerGas |-> chain.priorityFee]
                    ELSE [gasPrice |-> DynamicGasPrice(chain.safetyGas)]
       IN \A k \in {"gasPrice", "maxFeePerGas", "maxPriorityFeePerGas"} :
            IF k \in DOMAIN additional_params
              THEN k \in DOMAIN t /\ t[k] = additional_params[k]
            ELSE IF k \in DOMAIN own
              THEN k \in DOMAIN t /\ t[k] = own[k]
            ELSE k \notin DOMAIN t

\* a fee-market build with no additional_params: fee cap 60 for base fee 30
C18_Witness ==
    /\ BuildReturned
    /\ chain.eip1559
    /\ chain.baseFee = 30
    /\ DOMAIN call_args.additional_params = {}
    /\ result[1].maxFeePerGas = 60
    /\ "gasPrice" \notin DOMAIN result[1]

----------------------------------------------------------------------------
(* Properties of the bundle order (Spec) *)

\* C17: the relay payload of send_bundle lists the signed transactions in
\* the order of its input list; front_run submits exactly [flashloan,
\* front-run] and execute_sandwich_attack exactly [flashloan, front-run,
\* back-run]: the flashloan precedes every other member and the front-run
\* precedes the back-run.
C17_BundleOrder ==
    op \in EntryPoints =>
       /\ (Len(bundle) > 0 /\ BaseOf(op) = "front_run") =>
             bundle = <<flashloan_tx[1], front_run_tx[1]>>
       /\ (Len(bundle) > 0 /\ BaseOf(op) = "execute_sandwich_attack") =>
             bundle = <<flashloan_tx[1], front_run_tx[1], back_run_tx[1]>>
       /\ Len(transactions) > 0 => transactions = bundle
       /\ bundle_payload # None =>
             /\ Len(bundle_payload[1].txs) = Len(transactions)
             /\ \A i \in 1..Len(transactions) :
                  bundle_payload[1].txs[i] = Hex(sign_transaction(transactions[i]))

\* a sandwich whose three members reached a relay payload
C17_Witness ==
    /\ op = "execute_sandwich_attack"
    /\ bundle_payload # None
    /\ Len(bundle_payload[1].txs) = 3
    /\ bundle_payload[1].txs[1] = Hex(sign_transaction(flashloan_tx[1]))
    /\ bundle_payload[1].txs[3] = Hex(sign_transaction(back_run_tx[1]))
    /\ flashloan_tx[1].nonce < front_run_tx[1].nonce
    /\ front_run_tx[1].nonce < back_run_tx[1].nonce

----------------------------------------------------------------------------
(* Properties of cancel_transaction (SpecCancel) *)

\* C19: cancel_transaction(n) signs and broadcasts exactly one transaction,
\* with to = from = the agent's address, value 0, gas 21000, nonce n and the
\* configured cancel gas price; it asks the nonce service for nothing and
\* makes a single attempt; it returns True exactly when the broadcast was
\* accepted, and returns False without raising when the chain-id read, the
\* signing or the broadcast fails.
C19_CancelReplacesOnce ==
    op = "cancel_transaction" =>
       /\ ~raised
       /\ nonceCalls = 0
       /\ ex_signs <= 1
       /\ ex_sends <= 1
       /\ \A s \in signedLog :
            /\ s.payload.to = "account.address"
            /\ s.payload.from = "account.address"
            /\ s.payload.value = 0
            /\ s.payload.gas = 21000
            /\ s.payload.nonce = call_args.nonce
            /\ s.payload.gasPrice = DEFAULT_CANCEL_GAS_PRICE_GWEI * 10
       /\ pc = "done" =>
            /\ result \in {Some(TRUE), Some(FALSE)}
            /\ result = Some(TRUE) <=> ex_accepted = 1
            /\ ex_accepted = 1 => (ex_signs = 1 /\ ex_sends = 1)

----------------------------------------------------------------------------
(* Properties of a sequence of calls on one engine (SpecEngine) *)

\* C16: across any sequence of build, execute_transaction and send_bundle
\* calls on one engine whose nonce service issues every nonce once, no two
\* signed payloads with different content carry the same nonce: every retry
\* inside execute_transaction signs the identical transaction, and the
\* members of one bundle carry pairwise distinct nonces.
C16_NonceSignedOnce ==
    /\ \A a, b \in signedLog : a.payload.nonce = b.payload.nonce => a = b
    /\ \A i, j \in DOMAIN signed_txs :
         i # j => signed_txs[i].payload.nonce # signed_txs[j].payload.nonce
    /\ (op = "execute_transaction" /\ ex_sends > 0) =>
          sign_transaction(tx) \in signedLog

\* a bundle of two built transactions was signed, then one of them was
\* executed and is being retried
C16_Witness ==
    /\ op = "execute_transaction"
    /\ ex_signs = 2
    /\ Cardinality(signedLog) = 2
    /\ Len(built) = 2
    /\ built[1].nonce # built[2].nonce

----------------------------------------------------------------------------
(* Properties of single calls run to their end (SpecCalls) *)

\* the relay posts one send_bundle call has made
RECURSIVE RelayPosts(_)
RelayPosts(b) == IF b = 0 THEN 0 ELSE posts[b] + RelayPosts(b - 1)

\* C21: every call of execute_transaction and of send_bundle terminates,
\* whatever failures the chain client and the relays produce:
\* execute_transaction after at most MEMPOOL_MAX_RETRIES attempts and
\* send_bundle after at most |MEV_BUILDERS| * MEMPOOL_MAX_RETRIES relay
\* posts.
C21_CallsTerminate ==
    /\ <>(pc = "done")
    /\ [](/\ ex_signs <= MEMPOOL_MAX_RETRIES
          /\ ex_attempt <= MEMPOOL_MAX_RETRIES
          /\ RelayPosts(NumBuilders) <= NumBuilders * MEMPOOL_MAX_RETRIES
          /\ \A b \in MEV_BUILDERS : posts[b] <= MEMPOOL_MAX_RETRIES)

\* send_bundle has returned False after every relay failed every attempt
\* with a transport failure
C21_Witness ==
    /\ op = "send_bundle" /\ pc = "done"
    /\ RelayPosts(NumBuilders) = NumBuilders * MEMPOOL_MAX_RETRIES
    /\ \A b \in MEV_BUILDERS : lastResp[b] \in TransportFailures
    /\ result = Some(FALSE)

----------------------------------------------------------------------------
(* Properties of the strategies: frame and order (Spec) *)

\* C22: no strategy entry point, validator or preparation step modifies the
\* target transaction it receives, and none of them writes a field of the
\* engine instance after initialization: no step of an invocation changes
\* the target or the engine's configuration and router handles.
C22_TargetAndEngineReadOnly ==
    [][target_tx' = target_tx /\ engine' = engine]_vars

\* a sandwich ran to a submitted bundle, and the decoded call it holds has
\* its path reversed in place
C22_Witness ==
    /\ op = "execute_sandwich_attack" /\ pc = "done"
    /\ result = Some(TRUE)
    /\ ~IsNone(back_run_tx)
    /\ decoded_tx[1].params.path = <<TokenC, TokenB, TokenA>>
    /\ target_tx = BaseTarget

\* the router the target's checksummed to address is matched with, and
\* the reasons C23 gives for a preparation to return nothing
C23_Unpreparable(function_name) ==
    LET to == Addr(target_tx.d.to.id, "checksum")
        sushi == to = engine.SUSHISWAP_ADDRESS
        uni == to = engine.UNISWAP_ADDRESS /\ ~sushi
        interface == IF sushi THEN {"swapExactTokensForTokens", "swapTokensForExactTokens"}
                     ELSE {"swapExactTokensForTokens"}
    IN \/ ~(sushi \/ uni)
       \/ sushi /\ ~engine.sushiswap_router_contract
       \/ uni /\ ~engine.uniswap_router_contract
       \/ function_name \notin interface

\* C23: _prepare_front_run_transaction and _prepare_back_run_transaction
\* return no transaction, without raising and without requesting a nonce,
\* when the target's to address is not one of the configured router
\* addresses, when the matched router's contract handle was not
\* initialized, or when the decoded function name is not a function of
\* that router.
C23_PreparationReturnsNothing ==
    [][ /\ (pc = "prep_front"
             /\ C23_Unpreparable(decode_transaction_input(
                      target_tx.d.input,
                      to_checksum_address(target_tx.d.to))[1].function_name)) =>
            /\ front_run_tx' = None
            /\ nonceCalls' = nonceCalls /\ buildCalls' = buildCalls
            /\ nextNonce' = nextNonce
            /\ ~raised'
        /\ (pc = "prep_back" /\ C23_Unpreparable(decoded_tx[1].function_name)) =>
            /\ back_run_tx' = None
            /\ nonceCalls' = nonceCalls /\ buildCalls' = buildCalls
            /\ nextNonce' = nextNonce
            /\ ~raised' ]_vars

\* a sandwich on a call the Uniswap router does not have: the flashloan was
\* built, the two companions were not
C23_Witness ==
    /\ op = "execute_sandwich_attack" /\ pc = "bundle"
    /\ decoded_tx[1].function_name = "swapTokensForExactTokens"
    /\ target_tx.d.to.id = "uniswap"
    /\ ~IsNone(flashloan_tx)
    /\ front_run_tx = None /\ back_run_tx = None
    /\ nonceCalls = 1

----------------------------------------------------------------------------
(* Properties of the retry delay of execute_transaction (SpecExec) *)

\* C24: in execute_transaction the delay slept between failed attempt
\* number k and the next attempt is MEMPOOL_RETRY_DELAY * k, after every
\* kind of attempt failure.  Stated of the state in which attempt k + 1 is
\* about to start.
C24_LinearDelay ==
    (op = "execute_transaction" /\ pc = "ex_attempt" /\ ex_attempt > 1) =>
       ex_lastSleep = MEMPOOL_RETRY_DELAY * (ex_attempt - 1)

----------------------------------------------------------------------------
(* Properties of the order of the stages (Spec) *)

PrepareStage == {"prep_flashloan", "prep_front", "prep_back", "bundle"}

SubmitStage == {"sb_sign", "sb_block", "sb_post", "sb_finish", "sb_return"}

\* the members a base strategy needs are all prepared
C25_MembersPrepared ==
    CASE BaseOf(op) = "front_run" -> ~IsNone(flashloan_tx) /\ ~IsNone(front_run_tx)
      [] BaseOf(op) = "back_run" -> ~IsNone(back_run_tx)
      [] OTHER -> ~IsNone(flashloan_tx) /\ ~IsNone(front_run_tx) /\ ~IsNone(back_run_tx)

\* what C25 says of one step of a base strategy
C25_Step ==
    \* the stages follow each other in order, or the invocation ends
    /\ pc = "validate" =>
          /\ pc' \in {"done", IF BaseOf(op) = "execute_sandwich_attack" THEN "gate"
                               ELSE IF BaseOf(op) = "front_run" THEN "prep_flashloan"
                               ELSE "prep_back"}
          /\ pc' # "done" <=> valid' = Some(TRUE)
    /\ pc = "gate" => pc' \in {"prep_flashloan", "done"}
    /\ pc \in PrepareStage => pc' \in PrepareStage \cup {"simulate", "done"}
    /\ pc = "simulate" => pc' \in {"simulate", "sb_sign", "done"}
    /\ pc \in SubmitStage => pc' \in SubmitStage \cup {"done"}
    \* no nonce and no build before validation (and the gate) has passed
    /\ (nonceCalls' # nonceCalls \/ buildCalls' # buildCalls \/ nextNonce' # nextNonce) =>
          /\ pc \in {"prep_flashloan", "prep_front", "prep_back"}
          /\ valid = Some(TRUE)
    \* no simulation before every member is prepared
    /\ simulations' # simulations =>
          /\ pc \in {"bundle", "simulate"}
          /\ C25_MembersPrepared
          /\ Len(simulations') = Len(BundleMembers(BaseOf(op), 0, 0, 0))
    \* no signing and no relay post before every simulation has finished
    /\ (signCalls' # signCalls \/ posts' # posts) =>
          /\ pc \in SubmitStage
          /\ simulations # << >>
          /\ \A i \in 1..Len(simulations) : simulations[i] = "true"
    \* a stage that fails returns False and no later stage is entered
    /\ (pc' = "done" /\ pc \notin SubmitStage) =>
          /\ result' = Some(FALSE)
          /\ signCalls' = 0 /\ \A b \in MEV_BUILDERS : posts'[b] = 0
          /\ pc \in {"validate", "gate"} => nonceCalls' = 0 /\ buildCalls' = 0
          /\ pc # "simulate" => simulations' = << >>

\* C25: each invocation of front_run, back_run and execute_sandwich_attack
\* passes through its stages in the order validate, decide, prepare,
\* simulate, submit: no nonce is requested and no transaction is built
\* before validation (and, for the sandwich, the sub-strategy gate) has
\* passed, no simulation starts before every member is prepared, no relay
\* post happens before every simulation has finished, and the invocation
\* returns False from the first stage that fails without entering a later
\* stage.
C25_StageOrder ==
    [][ (op \in EntryPoints
           /\ pc \in {"validate", "gate", "simulate"} \cup PrepareStage \cup SubmitStage)
          => C25_Step ]_vars

\* a sandwich passed every stage: three members built, simulated and posted
C25_Witness ==
    /\ op = "execute_sandwich_attack" /\ strategy = "price_boost"
    /\ pc = "sb_finish"
    /\ nonceCalls = 3 /\ buildCalls = 3
    /\ simulations = <<"true", "true", "true">>
    /\ signCalls = 3
    /\ \E b \in MEV_BUILDERS : posts[b] > 0

----------------------------------------------------------------------------
(* Properties of the decisions of the variants (Spec) *)

\* The raw risk score (0-100) of the earlier definition of
\* _calculate_risk_score, the one the later definition replaces: the 24h
\* price change band, the gas price band and the two market flags; the
\* normalized score is this divided by 100.
RiskScoreEarlier(price_change, gas_price, market_conditions) ==
    (IF price_change > 1000 THEN 40
     ELSE IF price_change > 700 THEN 30
     ELSE IF price_change > 400 THEN 20
     ELSE IF price_change > 200 THEN 10
     ELSE 0)
      + (IF gas_price > 200 THEN 30
         ELSE IF gas_price > 150 THEN 20
         ELSE IF gas_price > 100 THEN 10
         ELSE 0)
      + (IF Get(market_conditions, "high_volatility", FALSE) THEN 20 ELSE 0)
      + (IF Get(market_conditions, "low_liquidity", FALSE) THEN 10 ELSE 0)

\* the variant has made its decision and not yet handed over to the base
\* strategy
Decided ==
    /\ signals # NoSignals /\ "gate" \notin DOMAIN signals
    /\ pc \in {"v_call", "done"}

\* C26: aggressive_front_run invokes front_run exactly when validation with
\* min_value = AGGRESSIVE_FRONT_RUN_MIN_VALUE_ETH succeeds and the risk
\* score normalized to [0,1] is >= AGGRESSIVE_FRONT_RUN_RISK_SCORE_THRESHOLD;
\* in every other case it returns False and builds nothing.  The market
\* flags being whatever the monitor answers, the score is taken as passing
\* (failing) when it passes (fails) for every answer.
C26_AggressiveDecision ==
    (op = "aggressive_front_run" /\ Decided
       /\ signals.price_change_24h.kind = "value" /\ ~IsNone(chain.safetyGas)) =>
       LET Score(hv, ll) ==
               RiskScoreEarlier(signals.price_change_24h.v[1], chain.safetyGas[1].gwei,
                                MarketConditions(FALSE, hv, ll))
       IN /\ (\A hv \in BOOLEAN, ll \in BOOLEAN :
                 Score(hv, ll) >= AGGRESSIVE_FRONT_RUN_RISK_SCORE_THRESHOLD)
               => pc = "v_call"
          /\ (\A hv \in BOOLEAN, ll \in BOOLEAN :
                 Score(hv, ll) < AGGRESSIVE_FRONT_RUN_RISK_SCORE_THRESHOLD)
               => /\ pc = "done"
                  /\ result = Some(FALSE)
                  /\ ~raised
                  /\ buildCalls = 0 /\ nonceCalls = 0

\* the variant's own decision came out passing, on the values it obtained
C27_Passing ==
    CASE op \in {"predictive_front_run", "volatility_front_run"} ->
           /\ ~IsNone(score)
           /\ score[1] >= (IF op = "predictive_front_run"
                             THEN FRONT_RUN_OPPORTUNITY_SCORE_THRESHOLD
                           ELSE VOLATILITY_FRONT_RUN_SCORE_THRESHOLD)
      [] op = "price_dip_back_run" ->
           /\ signals.current_price.kind = "value"
           /\ signals.predicted_price.kind = "value"
           /\ signals.predicted_price.v[1] * 100
                 < signals.current_price.v[1] * PRICE_DIP_BACK_RUN_THRESHOLD
      [] op = "high_volume_back_run" ->
           /\ signals.volume_24h.kind = "value"
           /\ signals.volume_24h.v[1]
                 > (IF token_symbol = Some("ETH") THEN 1000000 ELSE 10000)
      [] op = "advanced_sandwich_attack" ->
           /\ signals.market_conditions.kind = "value"
           /\ Get(signals.market_conditions.v[1], "high_volatility", FALSE)
           /\ Get(signals.market_conditions.v[1], "bullish_trend", FALSE)
      [] OTHER -> FALSE

C27_Variants ==
    {"predictive_front_run", "volatility_front_run", "price_dip_back_run",
     "high_volume_back_run", "advanced_sandwich_attack"}

\* C27: predictive_front_run, volatility_front_run, price_dip_back_run,
\* high_volume_back_run and advanced_sandwich_attack invoke their base
\* strategy exactly when their decision passes (score >= the variant's
\* threshold; predicted price < current price x PRICE_DIP_BACK_RUN_THRESHOLD;
\* 24h volume > the symbol's volume threshold, 10000 for an unlisted symbol;
\* high_volatility and bullish_trend both set), the base strategy is entered
\* from nowhere else, and a decision that does not pass has built nothing,
\* simulated nothing and submitted nothing.
C27_VariantDecisions ==
    /\ [](op \in C27_Variants /\ Decided =>
            /\ (pc = "v_call") <=> C27_Passing
            /\ pc = "done" =>
                  /\ buildCalls = 0 /\ nonceCalls = 0
                  /\ simulations = <<>>
                  /\ NothingSent)
    /\ [][(op \in C27_Variants /\ pc' = "validate") => pc = "v_call"]_vars

\* price_dip_back_run saw a predicted price of 98 against a current price of
\* 100 and is about to call back_run
C27_Witness ==
    /\ op = "price_dip_back_run" /\ pc = "v_call"
    /\ signals.current_price = Answer("value", Some(100))
    /\ signals.predicted_price = Answer("value", Some(98))

\* C28: flashloan_back_run invokes back_run exactly when the flashloan
\* amount computed from the target's estimated profit, multiplied by
\* FLASHLOAN_BACK_RUN_PROFIT_PERCENTAGE, is greater than MIN_PROFIT, and
\* returns False without invoking back_run otherwise.
C28_FlashloanBackRunDecision ==
    (op = "flashloan_back_run" /\ Decided /\ target_tx.isDict) =>
       IF ProfitAboveMin(calculate_flashloan_amount(target_tx))
         THEN pc = "v_call"
       ELSE /\ pc = "done"
            /\ result = Some(FALSE)
            /\ ~raised

----------------------------------------------------------------------------
(* Properties of the base strategies' gates and members (Spec) *)

\* the gate of the chosen sub-strategy passes on the answer it was given
C29_GatePasses ==
    LET sig == signals.gate
    IN CASE strategy = "flash_profit" ->
              /\ ProfitAboveMin(calculate_flashloan_amount(target_tx))
              /\ ~IsNone(chain.safetyGas)
              /\ chain.safetyGas[1].gwei <= SANDWICH_ATTACK_GAS_PRICE_THRESHOLD_GWEI
         [] strategy = "price_boost" ->
              /\ sig.kind = "value"
              /\ Len(sig.prices) > 0
              /\ sig.prices[1] > 0
              /\ (sig.prices[Len(sig.prices)] - sig.prices[1]) * 100
                    > PRICE_BOOST_SANDWICH_MOMENTUM_THRESHOLD * sig.prices[1]
         [] strategy = "arbitrage" -> sig.kind = "value" /\ sig.flag
         [] strategy = "advanced" -> sig.kind = "value" /\ sig.hv /\ sig.bt
         [] OTHER -> TRUE

\* C29: execute_sandwich_attack goes on to the preparation exactly when the
\* gate of its sub-strategy passes (flash_profit: estimated profit >
\* MIN_PROFIT and dynamic gas price <= SANDWICH_ATTACK_GAS_PRICE_THRESHOLD_GWEI;
\* price_boost: historical prices exist and momentum > the threshold;
\* arbitrage: the monitor reports an opportunity; advanced: high_volatility
\* and bullish_trend; any other name: always); a gate that fails or raises
\* yields False with no nonce requested.
C29_SandwichGate ==
    [][pc = "gate" =>
         /\ (pc' = "prep_flashloan") <=> C29_GatePasses'
         /\ pc' # "prep_flashloan" =>
               /\ pc' = "done"
               /\ result' = Some(FALSE)
               /\ ~raised'
               /\ nonceCalls' = 0]_vars

\* the target carries no positive estimated profit
C30_NoProfit == ~target_tx.isDict \/ ~ProfitPositive(EstimatedProfit(target_tx))

\* C30: front_run (called directly or by a variant) submits a bundle only
\* when both the flashloan transaction and the front-run transaction were
\* prepared: whenever the target's estimated profit is <= 0 or the front-run
\* preparation returned nothing, front_run returns False and nothing is
\* simulated, signed or posted; and what is simulated and submitted is the
\* flashloan followed by the front-run transaction, never the latter alone.
C30_FrontRunNeedsBoth ==
    BaseOf(op) = "front_run" =>
       /\ (bundle # << >> \/ simulations # << >> \/ transactions # << >> \/ ~NothingSent) =>
             /\ ~C30_NoProfit
             /\ ~IsNone(flashloan_tx) /\ ~IsNone(front_run_tx)
             /\ bundle = <<flashloan_tx[1], front_run_tx[1]>>
             /\ transactions \in {<< >>, bundle}
       /\ (pc = "done" /\ ~raised /\ (C30_NoProfit \/ IsNone(front_run_tx))) =>
             /\ result = Some(FALSE)
             /\ bundle = << >> /\ simulations = << >>
             /\ NothingSent

\* front_run prepared its front-run transaction for a target without a
\* positive profit, had no flashloan, and returned False
C30_Witness ==
    /\ op = "front_run" /\ pc = "done"
    /\ C30_NoProfit
    /\ flashloan_amount = Some(Amount(0, 0))
    /\ IsNone(flashloan_tx) /\ ~IsNone(front_run_tx)
    /\ result = Some(FALSE)

----------------------------------------------------------------------------
(* Properties of the scores on short price series (Spec) *)

\* C31: for an empty or single-point historical price series the
\* coefficient-of-variation term contributes 0 points: the volatility score
\* is then the points of the market flags alone (no historical-volatility
\* and no price-range points), and the opportunity score computed by
\* predictive_front_run is the sum of its other four terms (no
\* inverse-volatility points).
C31_ShortSeriesScoresZero ==
    (op \in GatheringVariants /\ ~IsNone(score)
       /\ Len(PriceList(signals.historical_prices)) <= 1) =>
       LET market_conditions == signals.market_conditions.v[1]
           historical_prices == PriceList(signals.historical_prices)
       IN IF op = "volatility_front_run"
            THEN score[1] = (IF Get(market_conditions, "high_volatility", FALSE) THEN 20 ELSE 0)
                              + (IF Get(market_conditions, "low_liquidity", FALSE) THEN 10 ELSE 0)
          ELSE score[1] = PriceChangeTerm(PriceChange(signals.predicted_price.v[1],
                                                       signals.current_price.v[1]))
                            + PriceLevelTerm(signals.current_price.v[1], historical_prices)
                            + MarketTerm(market_conditions)
                            + TrendTerm(historical_prices)

----------------------------------------------------------------------------
(* Properties of decode_transaction_input (SpecDecode) *)

\* the ABIs, by their place in the registry, under which the call's calldata
\* decodes for the call's contract address
C32_Decoding ==
    IF ChecksumRaises(call_args.contract_address) THEN {}
    ELSE {i \in 1..Len(AbiRegistry) : AbiDecodes(AbiRegistry[i], call_args.input_data)}

\* the selector-table entries for characters 2..9 of the call's calldata
C32_Known == {e \in MethodSelectors : e[1] = SelectorOf(call_args.input_data)}

\* C32: decode_transaction_input never raises; it returns None when the
\* selector (characters 2..9 of the calldata) is not in the selector table
\* or when no ABI decodes the calldata; otherwise it returns the parameters
\* decoded by the first ABI, in registry order, that decodes, with
\* function_name from the selector table, the selector as signature, and
\* abi_type naming that ABI.
C32_DecodeResult ==
    (op = "decode_transaction_input" /\ pc = "done") =>
       /\ ~raised
       /\ IF C32_Known = {} \/ C32_Decoding = {}
            THEN result = Some(None)
          ELSE \E e \in C32_Known, i \in C32_Decoding :
                 /\ \A j \in C32_Decoding : i <= j
                 /\ result = Some(Some([function_name |-> e[2],
                                         params |-> call_args.input_data[6].args,
                                         signature |-> e[1],
                                         abi_type |-> AbiRegistry[i].abi_type]))

\* swap calldata that both router ABIs decode came back under the first of
\* them
C32_Witness ==
    /\ op = "decode_transaction_input" /\ pc = "done"
    /\ Cardinality(C32_Decoding) = 2
    /\ result # Some(None)
    /\ result[1][1].abi_type = "uniswap"
    /\ result[1][1].function_name = "swapExactTokensForTokens"

----------------------------------------------------------------------------
(* Properties of the payload and the relay loop of send_bundle (SpecBundle) *)

\* C33: send_bundle signs every member exactly once and builds one payload
\* per call: every post, to every relay and on every retry, carries the same
\* signed transactions and the same blockNumber, the chain head read when
\* the payload was built plus 1, also when the head has advanced since.
C33_OnePayloadPerCall ==
    /\ []((op = "send_bundle" /\ ~IsNone(bundle_payload)) =>
            /\ signCalls = Len(transactions)
            /\ signed_txs = [i \in 1..Len(transactions) |->
                               sign_transaction(transactions[i])]
            /\ bundle_payload[1].txs = [i \in 1..Len(transactions) |->
                                          Hex(signed_txs[i])]
            /\ \A b \in MEV_BUILDERS :
                  posted[b] = IF posts[b] > 0 THEN {bundle_payload[1]} ELSE {})
    /\ [][(pc = "sb_block" /\ ~IsNone(bundle_payload')) =>
             bundle_payload'[1].blockNumber = Hex(block_number + 1)]_vars
    /\ [][~IsNone(bundle_payload) => bundle_payload' = bundle_payload]_vars

\* the first relay was posted to again, and the second relay after it, when
\* the head had moved past the block the payload names
C33_Witness ==
    /\ op = "send_bundle" /\ pc = "sb_finish"
    /\ Len(transactions) = 3
    /\ posts[1] >= 2 /\ posts[2] >= 1
    /\ headAdvances >= 1
    /\ bundle_payload[1].blockNumber # Hex(block_number + 1)

\* the relay loops of the call are over
C34_LoopsOver ==
    \/ pc = "sb_finish"
    \/ pc \in {"sb_return", "done"} /\ ~IsNone(bundle_payload)

\* the relays the configuration lists
C34_Configured == {mev_builders[i] : i \in 1..Len(mev_builders)}

\* C34: send_bundle attempts every configured relay whatever happened at
\* the earlier ones (an acceptance does not stop the posts to the remaining
\* relays), no relay outside the configuration is contacted, each relay is
\* counted as a success at most once, and with an empty relay list the call
\* returns False without refreshing the nonce.
C34_EveryRelayAttempted ==
    op = "send_bundle" =>
       /\ \A b \in MEV_BUILDERS \ C34_Configured : posts[b] = 0
       /\ \A i, j \in 1..Len(successes) : successes[i] = successes[j] => i = j
       /\ C34_LoopsOver =>
             /\ \A b \in C34_Configured : posts[b] >= 1
             /\ {successes[i] : i \in 1..Len(successes)}
                   = {b \in C34_Configured : lastResp[b] = "accepted"}
       /\ (mev_builders = << >> /\ pc = "done") =>
             /\ result = Some(FALSE)
             /\ refreshCount = 0
             /\ ~raised

\* the first relay accepted at once and the second was still posted to
C34_Witness ==
    /\ op = "send_bundle" /\ pc = "done"
    /\ Len(mev_builders) = 2
    /\ posts[1] = 1 /\ lastResp[1] = "accepted"
    /\ posts[2] >= 1
    /\ successes = <<1>>

\* C35: if signing any member fails, or reading the chain's block number
\* fails, send_bundle contacts no relay, does not invoke refresh_nonce and
\* returns False without raising.
C35_FailureBeforePosting ==
    op = "send_bundle" =>
       /\ ~raised
       /\ (\E i \in 1..Len(transactions) : "nonce" \notin DOMAIN transactions[i]) =>
             /\ IsNone(bundle_payload)
             /\ NoRelayContacted
             /\ refreshCount = 0
             /\ pc \in {"sb_sign", "sb_return", "done"}
       /\ (pc \in {"sb_return", "done"} /\ IsNone(bundle_payload)) =>
             /\ NoRelayContacted
             /\ refreshCount = 0
             /\ sb_result = Some(FALSE)
             /\ pc = "done" => result = Some(FALSE)

\* three members were signed, the block number read failed, and the call
\* returned False
C35_Witness ==
    /\ op = "send_bundle" /\ pc = "done"
    /\ signCalls = 3 /\ Len(signed_txs) = 3
    /\ IsNone(bundle_payload)
    /\ result = Some(FALSE)

----------------------------------------------------------------------------
(* Properties of the ceiling check of execute_transaction (SpecExec) *)

\* C36: execute_transaction checks the gas-price ceiling only after a failed
\* attempt: with MEMPOOL_MAX_RETRIES >= 1 the first sign-and-broadcast
\* attempt is made whatever the gas price is, a first attempt that succeeds
\* returns its hash even when the gas price is above the ceiling, and with
\* the gas price above the ceiling the call makes exactly one attempt.
C36_CeilingAfterAttempt ==
    (op = "execute_transaction" /\ MEMPOOL_MAX_RETRIES >= 1) =>
       LET gas_price == IF "gasPrice" \in DOMAIN tx THEN tx.gasPrice
                        ELSE DEFAULT_GAS_PRICE_GWEI
       IN /\ ex_signs = 0 => pc = "ex_attempt" /\ result = None
          /\ pc = "done" => ex_signs >= 1
          /\ gas_price > MAX_GAS_PRICE_GWEI =>
                /\ ex_signs <= 1
                /\ ex_signs = 1 => pc = "done"
                /\ ex_accepted = 1 =>
                      result = Some(Some(Hex(TxHash(sign_transaction(tx)))))

\* a transaction priced above the ceiling went out at the first attempt and
\* its hash was returned
C36_Witness ==
    /\ op = "execute_transaction" /\ pc = "done"
    /\ "gasPrice" \in DOMAIN tx /\ tx.gasPrice > MAX_GAS_PRICE_GWEI
    /\ ex_signs = 1 /\ ex_sends = 1 /\ ex_accepted = 1
    /\ result = Some(Some(Hex(TxHash(sign_transaction(tx)))))

----------------------------------------------------------------------------
(* Properties of the results and the nonces of the strategies (Spec) *)

\* C37: a base strategy (front_run, back_run, execute_sandwich_attack,
\* called directly or by a variant) returns True if and only if at least one
\* relay accepted its bundle, and refresh_nonce is invoked, once, only in
\* that case: an invocation rejected at validation, gate, preparation,
\* simulation or submission triggers no nonce refresh, whatever nonces it
\* requested while preparing.
C37_TrueIffAccepted ==
    op \in EntryPoints =>
       LET accepted == \E b \in MEV_BUILDERS : lastResp[b] = "accepted"
       IN /\ refreshCount \in {0, 1}
          /\ refreshCount = 1 => accepted /\ pc \in {"sb_return", "done"}
          /\ (pc = "done" /\ ~raised) =>
                /\ result \in {Some(TRUE), Some(FALSE)}
                /\ (result = Some(TRUE)) <=> accepted
                /\ (refreshCount = 1) <=> accepted
          /\ (pc = "done" /\ raised) => refreshCount = 0 /\ ~accepted

\* a sandwich whose three members took three nonces was accepted by the
\* second relay only: True, one refresh
C37_Witness ==
    /\ op = "execute_sandwich_attack" /\ pc = "done"
    /\ nonceCalls = 3
    /\ lastResp[1] \in TransportFailures /\ lastResp[2] = "accepted"
    /\ result = Some(TRUE)
    /\ refreshCount = 1

\* what C38 says of a member that was None before a step and is prepared
\* after it: one build, one nonce request, the nonce the service issued
C38_Prepares(before, after) ==
    (IsNone(before) /\ ~IsNone(after)) =>
       /\ buildCalls' = buildCalls + 1
       /\ nonceCalls' = nonceCalls + 1
       /\ after[1].nonce = nextNonce
       /\ nextNonce' = nextNonce + 1

\* C38: during front_run and execute_sandwich_attack the members are
\* prepared strictly one after another in bundle order (flashloan, then
\* front-run, then back-run), each build requesting exactly one nonce, so
\* the members of a bundle carry strictly increasing nonces in bundle order.
C38_NoncesInBundleOrder ==
    /\ []((op \in EntryPoints /\ BaseOf(op) # "back_run") =>
            /\ pc = "prep_flashloan" =>
                  IsNone(flashloan_tx) /\ IsNone(front_run_tx) /\ IsNone(back_run_tx)
            /\ pc = "prep_front" => IsNone(front_run_tx) /\ IsNone(back_run_tx)
            /\ pc = "prep_back" => IsNone(back_run_tx)
            /\ ~IsNone(front_run_tx) => pc \notin {"prep_flashloan", "prep_front"}
            /\ ~IsNone(back_run_tx) =>
                  pc \notin {"prep_flashloan", "prep_front", "prep_back"}
            /\ nonceCalls <= buildCalls
            /\ \A i, j \in 1..Len(bundle) : i < j => bundle[i].nonce < bundle[j].nonce)
    /\ [][(op \in EntryPoints /\ BaseOf(op) # "back_run") =>
             /\ C38_Prepares(flashloan_tx, flashloan_tx')
             /\ C38_Prepares(front_run_tx, front_run_tx')
             /\ C38_Prepares(back_run_tx, back_run_tx')
             /\ nonceCalls' \in {nonceCalls, nonceCalls + 1}
             /\ buildCalls' \in {buildCalls, buildCalls + 1}]_vars

\* a sandwich bundle of three members with the nonces 7, 8 and 9 is being
\* simulated
C38_Witness ==
    /\ BaseOf(op) = "execute_sandwich_attack" /\ pc = "simulate"
    /\ Len(bundle) = 3
    /\ bundle[1].nonce = 7 /\ bundle[2].nonce = 8 /\ bundle[3].nonce = 9
    /\ bundle[1] = flashloan_tx[1] /\ bundle[3] = back_run_tx[1]

----------------------------------------------------------------------------
(* Properties of two concurrent strategy invocations (SpecConcurrent) *)

\* the nonces of the members of a bundle, in bundle order
BundleNonces(b) == [i \in 1..Len(b) |-> b[i].nonce]

\* the transactions an invocation has prepared
PreparedBy(k) ==
    {m[1] : m \in {o \in {k.flashloan_tx, k.front_run_tx, k.back_run_tx} : ~IsNone(o)}}

\* every member of the bundle an invocation submitted was prepared by that
\* invocation
C39_OwnMembers ==
    \A t \in DOMAIN tasks :
       \A i \in 1..Len(tasks[t].bundle) : tasks[t].bundle[i] \in PreparedBy(tasks[t])

\* C39: when two strategy invocations run concurrently on the same engine,
\* interleaving at every suspension point, each submitted bundle contains
\* only transactions prepared by its own invocation, and the nonces of one
\* bundle's members are consecutive: no nonce issued to the other
\* invocation falls between them.
C39_BundlesOwnAndConsecutive ==
    /\ C39_OwnMembers
    /\ \A t \in DOMAIN tasks :
          LET n == BundleNonces(tasks[t].bundle)
          IN tasks[t].submitted =>
               /\ \A i \in 1..(Len(n) - 1) : n[i + 1] = n[i] + 1
               /\ \A u \in DOMAIN tasks \ {t} :
                     \A j \in 1..Len(tasks[u].nonces) :
                        ~(n[1] < tasks[u].nonces[j] /\ tasks[u].nonces[j] < n[Len(n)])

----------------------------------------------------------------------------
(* Properties of handle_eth_transaction (SpecEth) *)

\* the target is skipped: its value or its gas price is not positive
EthSkipped ==
    Get(target_tx.d, "value", 0) <= 0 \/ Get(target_tx.d, "gasPrice", 0) <= 0

\* handle_eth_transaction returned without raising, and a target it skips
\* got False with nothing signed or broadcast
C40_SkippedNothingSent ==
    (op = "handle_eth_transaction" /\ pc = "returned") =>
       /\ ~raised
       /\ result \in {Some(TRUE), Some(FALSE)}
       /\ EthSkipped => (result = Some(FALSE) /\ ex_signs = 0 /\ ex_sends = 0)

\* a target that is not skipped and whose details were built went to
\* execute_transaction once, with gas 21000 and the multiplied gas price,
\* and the handler returned True exactly when a hash came back
C40_ExecutedOnce ==
    (op = "handle_eth_transaction" /\ pc = "returned" /\ ~EthSkipped
       /\ "gasPrice" \in DOMAIN tx) =>
       /\ tx.gas = 21000
       /\ tx.gasPrice = (target_tx.d.gasPrice * ETH_TX_GAS_PRICE_MULTIPLIER) \div 10
       /\ tx.value = target_tx.d.value
       /\ (result = Some(TRUE)) <=> (ex_accepted = 1)
       /\ ex_accepted <= 1

\* C40: handle_eth_transaction returns False without requesting a nonce,
\* signing or broadcasting anything whenever the target's value is <= 0 or
\* its gasPrice is <= 0; otherwise it executes one transaction with gas
\* 21000 and gasPrice = floor(target gasPrice * ETH_TX_GAS_PRICE_MULTIPLIER),
\* returns True iff execute_transaction returned a hash, and never raises.
C40_EthTransaction ==
    /\ C40_SkippedNothingSent
    /\ C40_ExecutedOnce
    /\ (op = "handle_eth_transaction" /\ EthSkipped) =>
          (nonceCalls = 0 /\ nextNonce = 7)

====
